---------------------------- MODULE Spec2Model ----------------------------
(***************************************************************************)
(* A model of dojo/cli-export-project: the project bundle exporter of      *)
(* src/src/exportProject.ts.                                               *)
(*                                                                         *)
(* The exporter is a single-threaded asynchronous program.  A step of the  *)
(* model is what runs between two interactions with the environment: the   *)
(* completion of one file-system operation (access, readFile, writeFile,   *)
(* glob, require.resolve) together with the continuation that it resumes,  *)
(* up to the next operation that continuation issues.  The outcome of an   *)
(* operation (what the file system holds) is drawn when it completes.      *)
(***************************************************************************)
EXTENDS Integers, Sequences, FiniteSets, TLC

(***************************************************************************)
(* Bounds of the model.                                                    *)
(***************************************************************************)
\* the number of dependency declarations (entries of peerDependencies,
\* dependencies and devDependencies) in all the manifests of one run of the
\* resolver on its own
MaxDecls == 4

\* the size of the project in a run of the whole exporter: the number of
\* dependency declarations in all the manifests, of entries of lib and types
\* in tsconfig.json and of files the globs match, and one for a .dojorc
MaxLoad == 2

\* the number of dependency declarations of the project's own manifest in a
\* run of the whole exporter
MaxProjectDecls == 1

\* the size of the project, as for MaxLoad, in the runs of the whole exporter
\* that vary the arguments and the name of the package
MaxArgsLoad == 1

\* the number of entries of lib and of files the globs match in a run of
\* addLibFiles and addProjectFiles on their own
MaxFiles == 2

\* the packages that can be installed under node_modules
Packages == {"dep1", "dep2", "dep3"}

\* the project's own manifest in the resolver's runs; its name as a string
RootName == "test-package"

VARIABLES
    args,            \* the ExportArgs of the run
    pc,              \* where exportProject is (see the actions below)
    cwd,             \* process.cwd(), a directory
    project,         \* the ProjectJson bundle under construction
    phases,          \* the state of the promise of each gathering phase
    libTasks,        \* addLibFiles: the libs whose read is pending
    typesTasks,      \* addTypesFiles: per entry of types, where its task is
    defTasks,        \* addDefinitionFiles: the glob and the pending reads
    fileTasks,       \* addProjectFiles: the globs and the pending reads
    accessed,        \* the files access was called for, and what it found
    reads,           \* the files readFile was called for
    writes,          \* the writeFile calls issued, in order
    nodeModules,     \* what the run has seen of <pkg>/package.json, per package
    depPhase,        \* addDependencies: "idle", "production", "development", "done"
    depStack,        \* the active calls of getDependencies, the innermost last
    parsedPackages,  \* the Set shared by the calls of one resolution
    depAwait,        \* TRUE while the innermost call awaits getFile(package.json)
    resolved,        \* per resolution and package: how often its manifest was resolved
    encountered,     \* per resolution: the declarations met, in the order met
    verboseFlag,     \* log.ts: the process-wide verbosity flag
    log              \* the lines written to console.log, in order

taskVars == <<libTasks, typesTasks, defTasks, fileTasks>>

resolverVars == <<nodeModules, depPhase, depStack, parsedPackages, depAwait, resolved,
                  encountered>>

vars == <<args, pc, cwd, project, phases, libTasks, typesTasks, defTasks, fileTasks,
          accessed, reads, writes, nodeModules, depPhase, depStack, parsedPackages, depAwait,
          resolved, encountered, verboseFlag, log>>

(***************************************************************************)
(* StringMap: a JavaScript object used as a map from package name to       *)
(* version.  Its keys are kept in insertion order, the order in which      *)
(* for..in and Object.assign visit them, so it is a sequence of entries    *)
(* with distinct names.                                                    *)
(***************************************************************************)
\* A version is a string that the exporter copies and never inspects, so
\* every declaration is given a version of its own, which tells the
\* declarations of one name apart: the one that section `section` of the
\* manifest of `of` requests.
Sections == {"peerDependencies", "dependencies", "devDependencies"}

Version(of, section) == [of |-> of, section |-> section]

\* the sequences of n distinct package names
NameSeqs(n) ==
    {q \in [1..n -> Packages] : \A i, j \in 1..n : i < j => q[i] # q[j]}

\* the values of one section of the manifest of `of` with at most n entries
SectionsUpTo(of, section, n) ==
    {[i \in 1..Len(q) |-> [name |-> q[i], version |-> Version(of, section)]] :
        q \in UNION {NameSeqs(k) : k \in 0..n}}

Keys(m) == {m[i].name : i \in 1..Len(m)}

HasKey(m, k) == \E i \in 1..Len(m) : m[i].name = k

Get(m, k) == m[CHOOSE i \in 1..Len(m) : m[i].name = k].version

\* target[k] = v: an existing key keeps its place, a new key is appended
Put(m, k, v) ==
    IF HasKey(m, k)
    THEN [i \in 1..Len(m) |-> IF m[i].name = k THEN [name |-> k, version |-> v] ELSE m[i]]
    ELSE Append(m, [name |-> k, version |-> v])

RECURSIVE AssignFrom(_, _, _)
AssignFrom(target, source, i) ==
    IF i > Len(source) THEN target
    ELSE AssignFrom(Put(target, source[i].name, source[i].version), source, i + 1)

RECURSIVE AssignNewFrom(_, _, _)
AssignNewFrom(target, source, i) ==
    IF i > Len(source) THEN target
    ELSE AssignNewFrom(IF HasKey(target, source[i].name) THEN target
                       ELSE Put(target, source[i].name, source[i].version),
                       source, i + 1)

\* an assignment that keeps the value of a key the target already has
ObjectAssignKeepingOld(target, source) == AssignNewFrom(target, source, 1)

\* Object.assign(target, source): every key of source, in source order, is
\* written to target and overwrites the value target had
ObjectAssign(target, source) == AssignFrom(target, source, 1)


(***************************************************************************)
(* Strings.  A file name or a package name is the sequence of its pieces:  *)
(* the characters ".", "/" and "\\" stand for themselves and a run of      *)
(* other characters is one piece, so "src/a.d.ts" is                       *)
(* <<"src", "/", "a", ".", "d", ".", "ts">>.                               *)
(***************************************************************************)
EndsWith(str, suffix) ==
    /\ Len(str) >= Len(suffix)
    /\ SubSeq(str, Len(str) - Len(suffix) + 1, Len(str)) = suffix

Positions(str, chars) == {i \in 1..Len(str) : str[i] \in chars}

\* path.basename: what follows the last "/"
BaseName(str) ==
    IF Positions(str, {"/"}) = {} THEN str
    ELSE SubSeq(str, (CHOOSE i \in Positions(str, {"/"}) :
                        \A j \in Positions(str, {"/"}) : j <= i) + 1, Len(str))

\* path.extname: from the last "." of the base name, "" when there is none or
\* when the base name only starts with it
ExtName(str) ==
    LET base == BaseName(str)
        dots == Positions(base, {"."})
        last == CHOOSE i \in dots : \A j \in dots : j <= i
    IN  IF dots = {} \/ last = 1 \/ base = <<".", ".">> THEN <<>>
        ELSE SubSeq(base, last, Len(base))

\* a classification that does not look for the declaration suffix
getProjectFileTypeByExtension(name) ==
    LET ext == ExtName(name)
    IN  CASE ext = <<".", "ts">>   -> "TypeScript"
          [] ext = <<".", "html">> -> "HTML"
          [] ext = <<".", "css">>  -> "CSS"
          [] ext = <<".", "json">> -> "JSON"
          [] ext = <<".", "xml">>  -> "XML"
          [] ext = <<".", "md">>   -> "Markdown"
          [] OTHER                 -> "PlainText"

\* lines 154-173
getProjectFileType(name) ==
    LET ext == ExtName(name)
    IN  CASE ext = <<".", "ts">>   -> IF EndsWith(name, <<".", "d", ".", "ts">>)
                                      THEN "Definition" ELSE "TypeScript"
          [] ext = <<".", "html">> -> "HTML"
          [] ext = <<".", "css">>  -> "CSS"
          [] ext = <<".", "json">> -> "JSON"
          [] ext = <<".", "xml">>  -> "XML"
          [] ext = <<".", "md">>   -> "Markdown"
          [] OTHER                 -> "PlainText"

\* lines 29-31
createProjectFile(name, text, type) == [name |-> name, text |-> text, type |-> type]

\* a pattern that matches no file name
DojoExcludedNever(filename) == FALSE

\* line 17: DOJO_EXCLUDE.test(filename)
DojoExcluded(filename) ==
    EndsWith(filename, <<"@dojo", "/", "loader", "/", "interfaces", ".", "d", ".", "ts">>)

\* str.replace(/[\/\\]/g, '-'): every separator
ReplaceEverySeparator(str) ==
    [i \in 1..Len(str) |-> IF str[i] \in {"/", "\\"} THEN "-" ELSE str[i]]

\* str.replace(/[\/\\]/, '-'): the first separator only
ReplaceFirstSeparator(str) ==
    LET seps == Positions(str, {"/", "\\"})
    IN  IF seps = {} THEN str
        ELSE [str EXCEPT ![CHOOSE i \in seps : \A j \in seps : i <= j] = "-"]

\* line 381: the name of the bundle file
OutFileName(package) ==
    ReplaceFirstSeparator(IF package.name = <<>> THEN <<"bundle">> ELSE package.name)
        \o <<".", "project", ".", "json">>

\* pattern.replace(/\.ts$/, `.{${ includeExtensions }}`): a ".d" stays
RewritePatternTsOnly(pattern, includeExtensions) ==
    IF EndsWith(pattern, <<".", "ts">>)
    THEN SubSeq(pattern, 1, Len(pattern) - 2) \o <<".", "{">> \o includeExtensions \o <<"}">>
    ELSE pattern

\* line 257: pattern.replace(/(\.d)?\.ts$/, `.{${ includeExtensions }}`); the
\* brace list is kept as one piece
RewritePattern(pattern, includeExtensions) ==
    LET braces == <<".", "{">> \o includeExtensions \o <<"}">>
    IN  IF EndsWith(pattern, <<".", "d", ".", "ts">>)
        THEN SubSeq(pattern, 1, Len(pattern) - 4) \o braces
        ELSE IF EndsWith(pattern, <<".", "ts">>)
        THEN SubSeq(pattern, 1, Len(pattern) - 2) \o braces
        ELSE pattern

(***************************************************************************)
(* Paths (posix).  A directory is the sequence of its segments from the    *)
(* root; a relative path is a sequence of segments, each a string as above *)
(* (".." is <<".", ".">>).                                                 *)
(***************************************************************************)
RECURSIVE SplitPath(_)
SplitPath(str) ==
    LET seps == Positions(str, {"/"})
        k    == CHOOSE i \in seps : \A j \in seps : i <= j
    IN  IF seps = {} THEN <<str>>
        ELSE <<SubSeq(str, 1, k - 1)>> \o SplitPath(SubSeq(str, k + 1, Len(str)))

RECURSIVE JoinPath(_)
JoinPath(segs) ==
    IF segs = <<>> THEN <<>>
    ELSE IF Len(segs) = 1 THEN segs[1]
    ELSE segs[1] \o <<"/">> \o JoinPath(Tail(segs))

\* path.normalize of the absolute path dir/seg1/seg2/...
RECURSIVE Resolve(_, _)
Resolve(dir, segs) ==
    IF segs = <<>> THEN dir
    ELSE LET seg == Head(segs)
         IN  IF seg = <<>> \/ seg = <<".">> THEN Resolve(dir, Tail(segs))
             ELSE IF seg = <<".", ".">>
             THEN Resolve(IF dir = <<>> THEN dir ELSE SubSeq(dir, 1, Len(dir) - 1),
                          Tail(segs))
             ELSE Resolve(Append(dir, seg), Tail(segs))

\* a chdir that stays where the process is
ResolveNowhere(dir, str) == dir

\* path.resolve(dir, str): an absolute str starts from the root
ResolveFrom(dir, str) ==
    IF str # <<>> /\ str[1] = "/" THEN Resolve(<<>>, SplitPath(str))
    ELSE Resolve(dir, SplitPath(str))

RECURSIVE CommonPrefix(_, _)
CommonPrefix(a, b) ==
    IF a = <<>> \/ b = <<>> \/ Head(a) # Head(b) THEN 0
    ELSE 1 + CommonPrefix(Tail(a), Tail(b))

\* path.relative(from, to) of two absolute directories or files
Relative(from, to) ==
    LET c == CommonPrefix(from, to)
    IN  [i \in 1..(Len(from) - c) |-> <<".", ".">>] \o SubSeq(to, c + 1, Len(to))

(***************************************************************************)
(* Manifests.  A package.json is modelled by the fields the exporter       *)
(* reads; an absent dependency section is the empty map (Object.assign     *)
(* ignores an undefined source).                                           *)
(***************************************************************************)
PackageJson(n, peer, deps, dev) ==
    [name |-> n, peerDependencies |-> peer, dependencies |-> deps,
     devDependencies |-> dev]

DeclCount(pkg) ==
    Len(pkg.peerDependencies) + Len(pkg.dependencies) + Len(pkg.devDependencies)

\* what node_modules holds for a package: "unknown" until the run looks
NodeEntry(status, peer, deps, dev) ==
    [status |-> status, peerDependencies |-> peer, dependencies |-> deps,
     devDependencies |-> dev]

UnknownEntry == NodeEntry("unknown", <<>>, <<>>, <<>>)

RECURSIVE SumDecls(_, _)
SumDecls(nm, ps) ==
    IF ps = {} THEN 0
    ELSE LET p == CHOOSE q \in ps : TRUE
         IN  DeclCount(nm[p]) + SumDecls(nm, ps \ {p})

RECURSIVE SumLen(_)
SumLen(lists) == IF lists = <<>> THEN 0 ELSE Len(Head(lists)) + SumLen(Tail(lists))

\* the manifests of package `of` with at most n declarations
ManifestsWithin(of, n) ==
    UNION {UNION {{NodeEntry("ok", peer, deps, dev) :
                        dev \in SectionsUpTo(of, "devDependencies",
                                             n - Len(peer) - Len(deps))} :
                  deps \in SectionsUpTo(of, "dependencies", n - Len(peer))} :
           peer \in SectionsUpTo(of, "peerDependencies", n)}

\* the outcomes of looking up <of>/package.json: require.resolve throws
\* ("unresolvable"), readFile fails or JSON.parse throws ("unreadable": both
\* are caught by the catch of line 195), or a manifest is read
NodeEntriesWithin(of, n) ==
    {NodeEntry(s, <<>>, <<>>, <<>>) : s \in {"unresolvable", "unreadable"}}
        \cup ManifestsWithin(of, n)

(***************************************************************************)
(* log.ts.  A line of console.log is recorded by its kind, what it says    *)
(* and the name it is about.  verbose() writes lines of kind "verbose".    *)
(***************************************************************************)
Line(kind, what, about) == [kind |-> kind, what |-> what, about |-> about]

VLine(what, about) == Line("verbose", what, about)

\* a verbose() that writes whatever the flag is
verboseUngated(flag, lg, lines) == lg \o lines

\* lines 400-413: log() always writes; verbose() writes when verboseFlag is set
verbose(flag, lg, lines) ==
    lg \o SelectSeq(lines, LAMBDA l : l.kind # "verbose" \/ flag)

(***************************************************************************)
(* getDependencies.  A call is a frame: the frontier `packages`, the index *)
(* i of the key the for..in loop is at, and the accumulator                *)
(* `dependencies`.  `merged` records the packages whose manifests this     *)
(* call has merged, in order (history only).                               *)
(***************************************************************************)
Frame(packages) ==
    [packages |-> packages, i |-> 1, dependencies |-> <<>>, merged |-> <<>>]

Top(stack) == stack[Len(stack)]

Pop(stack) == SubSeq(stack, 1, Len(stack) - 1)

SetTop(stack, f) == [stack EXCEPT ![Len(stack)] = f]

\* a resolver that forgets what it has parsed
NeverParsed(name, parsed) == FALSE

\* line 185: the package was already parsed by this resolution
AlreadyParsed(name, parsed) == name \in parsed

\* the two assignments of lines 200-201 in the other order
MergeManifestPeerLast(dependencies, packageJson) ==
    ObjectAssign(ObjectAssign(dependencies, packageJson.dependencies),
                 packageJson.peerDependencies)

\* a merge that takes the devDependencies of the manifest as well
MergeManifestWithDev(dependencies, packageJson) ==
    ObjectAssign(ObjectAssign(ObjectAssign(dependencies, packageJson.peerDependencies),
                              packageJson.dependencies),
                 packageJson.devDependencies)

\* lines 200-201: a manifest is merged into the accumulator, its
\* peerDependencies first and its dependencies second
MergeManifest(dependencies, packageJson) ==
    ObjectAssign(ObjectAssign(dependencies, packageJson.peerDependencies),
                 packageJson.dependencies)

\* a merge in which the accumulator's own entries survive the result's
MergeResultUnder(dependencies, result) == ObjectAssign(result, dependencies)

\* line 223: the result of the recursive call is merged into the accumulator
MergeResult(dependencies, result) == ObjectAssign(dependencies, result)

\* lines 237-238: the production seed
SeedProduction(production, package) ==
    ObjectAssign(ObjectAssign(production, package.peerDependencies),
                 package.dependencies)

\* line 243: the development seed
SeedDevelopment(development, package) ==
    ObjectAssign(development, package.devDependencies)

\* the declarations of a manifest in the order MergeManifest reads them
Declared(packageJson) == packageJson.peerDependencies \o packageJson.dependencies

\* verbose lines of lines 203-215
DependsLines(name, packageJson) ==
    (IF Len(packageJson.dependencies) > 0
     THEN <<VLine("depends on packages", name)>> ELSE <<>>)
        \o (IF Len(packageJson.peerDependencies) > 0
            THEN <<VLine("depends on peer packages", name)>> ELSE <<>>)

(***************************************************************************)
(* The state of addDependencies, as a record, for the synchronous run      *)
(* between two awaits: the project's manifest, the stack, the parsed set,  *)
(* the two result maps, the phase, the value a finished call returns       *)
(* (`returning`, `ret`), the lines and encounters the run produced, what    *)
(* node_modules holds, the count of resolves, whether the run ended at the *)
(* await of line 193, and the declarations the run may still meet.         *)
(***************************************************************************)
DepState(package, phase, stack, parsed, deps, lines, enc, nm, res, room) ==
    [package |-> package, phase |-> phase, stack |-> stack, parsed |-> parsed,
     dependencies |-> deps, returning |-> FALSE, ret |-> <<>>, lines |-> lines,
     encountered |-> enc, nodeModules |-> nm, resolved |-> res, await |-> FALSE,
     room |-> room]

\* a set that is handed on to the second resolution as it is
KeepPackageSet(parsed) == parsed

\* line 242: packageSet.clear()
ClearPackageSet(parsed) == {}

\* Runs the resolver from r to the next package the innermost call has not
\* parsed, or to the end of addDependencies.
RECURSIVE DepAdvance(_)
DepAdvance(r) ==
    IF r.phase \notin {"production", "development"} THEN r
    ELSE IF r.stack = <<>>
    THEN \* the outermost call has returned to addDependencies
         IF r.phase = "production"
         THEN \* lines 239-244
              LET seed == SeedDevelopment(r.dependencies.development, r.package)
              IN  DepAdvance([r EXCEPT
                    !.dependencies.production =
                        ObjectAssign(r.dependencies.production, r.ret),
                    !.dependencies.development = seed,
                    !.phase = "development",
                    !.parsed = ClearPackageSet(r.parsed),
                    !.stack = <<Frame(seed)>>,
                    !.returning = FALSE,
                    !.ret = <<>>,
                    !.encountered.development = r.package.devDependencies,
                    !.lines = Append(r.lines,
                                VLine("resolving development dependecies", <<>>))])
         ELSE \* line 244
              [r EXCEPT
                    !.dependencies.development =
                        ObjectAssign(r.dependencies.development, r.ret),
                    !.phase = "done",
                    !.returning = FALSE,
                    !.ret = <<>>]
    ELSE LET f == Top(r.stack) IN
         IF r.returning
         THEN \* line 223: the recursive call returned into f, which returns in turn
              DepAdvance([r EXCEPT !.stack = Pop(r.stack),
                                   !.ret = MergeResult(f.dependencies, r.ret)])
         ELSE IF f.i <= Len(f.packages)
         THEN IF AlreadyParsed(f.packages[f.i].name, r.parsed)
              THEN DepAdvance([r EXCEPT
                        !.stack = SetTop(r.stack, [f EXCEPT !.i = f.i + 1]),
                        !.lines = Append(r.lines,
                                    VLine("skipping dependencies", <<f.packages[f.i].name>>))])
              ELSE r
         ELSE IF Len(f.dependencies) > 0
         THEN \* line 222: recurse with the accumulator as the new frontier
              DepAdvance([r EXCEPT !.stack = Append(r.stack, Frame(f.dependencies))])
         ELSE DepAdvance([r EXCEPT !.stack = Pop(r.stack),
                                   !.returning = TRUE,
                                   !.ret = f.dependencies])

(***************************************************************************)
(* The inputs of a run: the arguments (main.ts) and what the file system   *)
(* holds.                                                                  *)
(***************************************************************************)
\* an optional argument or field that is absent
Undefined == <<>>

\* line 341: the default of setProjectIndex's index
DefaultIndex == <<".", "/", "src", "/", "index", ".", "html">>

\* line 253: the default of addProjectFiles's includeExtensions
DefaultExtensions == <<"ts,html,css,json,xml,md">>

\* main.ts, interface ExportArgs
ExportArgs(content, index, out, root, v) ==
    [content |-> content, index |-> index, out |-> out, project |-> root, verbose |-> v]

\* the calls of exportProject: the defaults of main.ts (out ".", project ".",
\* verbose false), and a verbose call with a content list, an index, an out
\* directory and a project directory
ArgsSet ==
    {ExportArgs(Undefined, Undefined, <<".">>, <<".">>, FALSE),
     ExportArgs(<<"ts,tsx">>, <<".", "/", "src", "/", "index", ".", "ts">>, <<"dist">>,
                <<"app">>, TRUE)}

\* process.cwd() when exportProject is called
InitialCwd == <<<<"home">>>>

\* the values of the arguments out and project: the directory itself, a
\* directory below, one beside and an absolute one
OutDirs ==
    {<<".">>, <<"dist">>, <<".", ".", "/", "out">>, <<"/", "srv", "/", "out">>}

ProjectDirs ==
    {<<".">>, <<"app">>, <<".", ".", "/", "other">>, <<"/", "srv", "/", "app">>}

\* the calls of exportProject that vary out and project
PathArgsSet ==
    {ExportArgs(Undefined, Undefined, out, root, FALSE) :
        out \in OutDirs, root \in ProjectDirs} \ ArgsSet

\* the names a project's manifest may have: none, or one with separators
PackageNames == {Undefined, <<"@dojo", "/", "test", "/", "pkg">>}

\* the names of the manifest in the calls of PathArgsSet: none, one without a
\* separator, the scoped name of the tests, and names with two separators
PathPackageNames ==
    {Undefined,
     <<"test-package">>,
     <<"@dojo", "/", "widget-core">>,
     <<"@dojo", "/", "test", "/", "pkg">>,
     <<"@dojo", "\\", "test", "/", "pkg">>,
     <<"a", "/", "b", "\\", "c">>}

LibNames == {"es6", "dom"}

TypesNames == {"foo", "baz"}

IncludePatterns == {<<".", "/", "src", "/", "**", "/", "*", ".", "ts">>}

\* the patterns of include in a run of addProjectFiles on its own; line 257
\* rewrites the first two to the same glob and leaves the third as it is
FilesIncludePatterns ==
    {<<".", "/", "src", "/", "**", "/", "*", ".", "ts">>,
     <<".", "/", "src", "/", "**", "/", "*", ".", "d", ".", "ts">>,
     <<".", "/", "src", "/", "**", "/", "*", ".", "tsx">>}

\* the sequences of at most n elements of S: an entry may be listed twice
Seqs(S, n) == UNION {[1..k -> S] : k \in 0..n}

\* the sequences of at most n distinct elements of S
DistinctSeqs(S, n) ==
    UNION {{q \in [1..k -> S] : \A i, j \in 1..k : i < j => q[i] # q[j]} : k \in 0..n}

\* tsconfig.json by the fields the exporter reads; an absent list is empty
TsConfig(lib, types, include) ==
    [compilerOptions |-> [lib |-> lib, types |-> types], include |-> include]

\* the tsconfig.json files with at most n entries of lib and types
TsConfigs(n) ==
    UNION {UNION {{TsConfig(lib, types, include) :
                        include \in DistinctSeqs(IncludePatterns, Cardinality(IncludePatterns))} :
                  types \in Seqs(TypesNames, n - Len(lib))} :
           lib \in Seqs(LibNames, n)}

\* the package.json of a types package, by the fields addTypesFiles reads
TypesManifests ==
    {[typings |-> typings, types |-> types] :
        typings \in {Undefined, <<"index", ".", "d", ".", "ts">>},
        types \in {Undefined, <<"lib", "/", "main", ".", "d", ".", "ts">>}}

\* the text of a file: the exporter copies it and never inspects it, so it is
\* identified by the file it was read from
TextOf(filename) == [of |-> filename]

\* JSON.stringify(JSON.parse(text)): the value survives, the layout does not
Stringify(value) == [json |-> value]

\* path.join of a directory name and a file name
Join(dir, name) == dir \o <<"/">> \o name

\* the files of the project that a glob can match, in the order glob
\* reports them
SourceFiles ==
    <<<<"src", "/", "Foo", ".", "tsx">>,
      <<"src", "/", "index", ".", "html">>,
      <<"src", "/", "index", ".", "ts">>>>

\* the files of the project in a run of addProjectFiles on its own (those of
\* the test 'adds project files based on tsconfig.json')
ProjectTree ==
    <<<<"src", "/", "index", ".", "ts">>,
      <<"src", "/", "index", ".", "html">>,
      <<"src", "/", "core", ".", "css">>,
      <<"src", "/", "config", "/", "config", ".", "json">>,
      <<"src", "/", "config", "/", "build", ".", "xml">>,
      <<"src", "/", "README", ".", "md">>,
      <<"src", "/", "interfaces", ".", "d", ".", "ts">>,
      <<"src", "/", "text", ".", "txt">>,
      <<"src", "/", "widgets", "/", "Foo", ".", "tsx">>>>

\* the definition files that can be installed, in the order glob reports them
DefinitionFiles ==
    <<<<"node_modules", "/", "@dojo", "/", "core", "/", "lang", ".", "d", ".", "ts">>,
      <<"node_modules", "/", "@dojo", "/", "loader", "/", "interfaces", ".", "d", ".", "ts">>,
      <<"node_modules", "/", "@types", "/", "chai", "/", "index", ".", "d", ".", "ts">>>>

\* line 322
DefinitionsPattern ==
    <<"node_modules", "/", "{", "@dojo,@types", "}", "/", "**", "/", "*", ".", "d", ".", "ts">>

\* the alternatives of a brace list
Alternatives(list) ==
    CASE list = "ts,html,css,json,xml,md" -> {"ts", "html", "css", "json", "xml", "md"}
      [] list = "ts,tsx"                  -> {"ts", "tsx"}
      [] list = "ts,tsx,txt"              -> {"ts", "tsx", "txt"}
      [] list = "@dojo,@types"            -> {"@dojo", "@types"}
      [] OTHER                            -> {list}

StartsWith(str, prefix) ==
    Len(str) >= Len(prefix) /\ SubSeq(str, 1, Len(prefix)) = prefix

\* the place of the first "**" of a pattern
Globstar(pattern) ==
    CHOOSE i \in Positions(pattern, {"**"}) : \A j \in Positions(pattern, {"**"}) : i <= j

\* the endings "*<tail>" of a pattern "<dir>/**/*<tail>" stands for: a brace
\* list stands for each of its alternatives
Endings(pattern) ==
    LET tail == SubSeq(pattern, Globstar(pattern) + 3, Len(pattern))
    IN  IF Len(tail) = 4 /\ tail[2] = "{"
        THEN {<<".", x>> : x \in Alternatives(tail[3])}
        ELSE {tail}

\* the directories "<dir>/" of a pattern "<dir>/**/*<tail>" stands for
Directories(pattern) ==
    LET dir == SubSeq(pattern, 1, Globstar(pattern) - 1)
        open == Positions(dir, {"{"})
    IN  IF open = {} THEN {dir}
        ELSE LET k == CHOOSE i \in open : TRUE
             IN  {SubSeq(dir, 1, k - 1) \o <<x>> \o SubSeq(dir, k + 3, Len(dir)) :
                    x \in Alternatives(dir[k + 1])}

\* glob: the file is under one of the directories of the pattern and has one
\* of its endings; a leading "./" of the pattern does not select
GlobMatches(pattern, filename) ==
    LET dotted == StartsWith(pattern, <<".", "/">>)
        pat == IF dotted THEN SubSeq(pattern, 3, Len(pattern)) ELSE pattern
    IN  /\ \E d \in Directories(pat) : StartsWith(filename, d)
        /\ \E e \in Endings(pat) : EndsWith(filename, e)

\* the elements of q at the places in S, in the order of q
RECURSIVE Restrict(_, _)
Restrict(q, S) ==
    IF q = <<>> THEN <<>>
    ELSE LET front == Restrict(SubSeq(q, 1, Len(q) - 1), S)
         IN  IF Len(q) \in S THEN Append(front, q[Len(q)]) ELSE front

\* what glob(pattern) can report when `files` are the candidates: at most
\* n of those that match, in order, each with the "./" of the pattern
GlobResults(pattern, files, n) ==
    LET dotted == StartsWith(pattern, <<".", "/">>)
        report == [i \in 1..Len(files) |->
                        IF dotted THEN <<".", "/">> \o files[i] ELSE files[i]]
    IN  {Restrict(report, S) :
            S \in {T \in SUBSET {i \in 1..Len(files) : GlobMatches(pattern, files[i])} :
                        Cardinality(T) <= n}}

\* what the run has met when its bundle is proj: the declarations of the
\* manifests, the entries of lib and types, the matches of the globs, .dojorc
Seen(proj) ==
    DeclCount(proj.package) + SumDecls(nodeModules, Packages)
        + Len(proj.tsconfig.compilerOptions.lib)
        + Len(proj.tsconfig.compilerOptions.types)
        + Len(defTasks.matches)
        + SumLen([j \in 1..Len(fileTasks.globs) |-> fileTasks.globs[j].matches])
        + (IF proj.dojorc = <<>> THEN 0 ELSE 1)

\* what a run may still meet
RoomOf(proj) ==
    (CASE pc = "unit"  -> MaxDecls
       [] pc = "files" -> MaxFiles
       [] args \in PathArgsSet -> MaxArgsLoad
       [] OTHER        -> MaxLoad) - Seen(proj)

Room == RoomOf(project)

(***************************************************************************)
(* The bundle.                                                             *)
(***************************************************************************)
\* the value of a manifest that was not read: {}
EmptyPackage == PackageJson(Undefined, <<>>, <<>>, <<>>)

\* lines 98-108
EmptyProject ==
    [dependencies |-> [production |-> <<>>, development |-> <<>>],
     environmentFiles |-> <<>>,
     files |-> <<>>,
     index |-> <<>>,
     package |-> EmptyPackage,
     tsconfig |-> TsConfig(<<>>, <<>>, <<>>),
     dojorc |-> Undefined]

\* resolve-cwd: a module id resolves to its place under node_modules of the
\* working directory
RequireResolve(dir, mid) == Resolve(dir, <<<<"node_modules">>>> \o SplitPath(mid))

\* relative(cwd(), requireResolve(...)) as a file name
ResolvedName(dir, mid) == JoinPath(Relative(dir, RequireResolve(dir, mid)))

\* line 138
LibFileName(lib) == <<"lib", ".", lib, ".", "d", ".", "ts">>

LibPath(lib) ==
    Join(<<"node_modules">>, Join(<<"typescript">>, Join(<<"lib">>, LibFileName(lib))))

\* a setProjectIndex that takes the index whatever the files are
setProjectIndexUnchecked(proj, index) ==
    [project |-> [proj EXCEPT !.index = IF index = Undefined THEN DefaultIndex ELSE index],
     lines |-> <<>>]

\* lines 341-348: the index is set when a project file has exactly that name;
\* otherwise an error is logged and the bundle is left as it is
setProjectIndex(proj, index) ==
    LET ix == IF index = Undefined THEN DefaultIndex ELSE index
    IN  IF \E i \in 1..Len(proj.files) : proj.files[i].name = ix
        THEN [project |-> [proj EXCEPT !.index = ix], lines |-> <<>>]
        ELSE [project |-> proj,
              lines |-> <<Line("error", "unable to find index in project", ix)>>]

\* an output path taken as it is, relative to the working directory of the
\* write
OutFileInProject(dir, out, package) ==
    JoinPath(Relative(dir, Resolve(dir, SplitPath(Join(out, OutFileName(package))))))

\* line 382
OutFile(dir, out, package) ==
    JoinPath(Relative(dir, Resolve(InitialCwd, SplitPath(Join(out, OutFileName(package))))))

\* line 385: the path the "exported" line shows
ExportedPath(dir, outfile) ==
    JoinPath(Relative(InitialCwd, Resolve(dir, SplitPath(outfile))))

\* a catch block that logs the headline only
CatchHeadline(err) == <<Line("errored", err.what, err.about)>>

\* lines 387-391: the two lines of the catch block
Catch(err) ==
    <<Line("errored", err.what, err.about), Line("stack", err.what, err.about)>>

\* a thrown value: what went wrong and with what
Error(what, about) == [what |-> what, about |-> about]

NoError == Error("none", <<>>)

(***************************************************************************)
(* exportProject, lines 353-392.  pc is "init" before the call, then the   *)
(* await createProject is at ("existsPackage", "existsTsconfig",           *)
(* "readPackage", "readTsconfig", "existsDojorc", "readDojorc"),           *)
(* "gathering" at the await of line 376, "writing" at the await of line    *)
(* 384, and "written" or "errored" when the function has ended.  "unit"    *)
(* is a run of addDependencies on its own, "files" a run of addLibFiles    *)
(* and addProjectFiles on their own.                                       *)
(***************************************************************************)
Phases == {"lib", "types", "definitions", "files", "dependencies"}

\* a join that a rejection of addTypesFiles does not settle
RejectedButTypes(ph) == \E p \in Phases \ {"types"} : ph[p] = "rejected"

\* Promise.all(tasks) of line 376 is settled by the first rejection
Rejected(ph) == \E p \in Phases : ph[p] = "rejected"

\* a join that does not wait for addDependencies
FulfilledWithoutDependencies(ph) ==
    \A p \in Phases \ {"dependencies"} : ph[p] = "fulfilled"

\* a Promise.all that is fulfilled as soon as no phase is rejected
FulfilledEarly(ph) == ~Rejected(ph)

\* Promise.all(tasks) of line 376 is fulfilled when every phase is
Fulfilled(ph) == \A p \in Phases : ph[p] = "fulfilled"

\* The end of every step of a gathering phase: the step leaves the bundle
\* proj, wrote `lines` and left the phases' promises as ph.  If exportProject
\* is at line 376 (`at`), a rejection resumes it in the catch block with the
\* error err, and the last fulfilment resumes it at lines 378-384.
Settle(at, proj, lines, ph, err) ==
    LET lg == verbose(verboseFlag, log, lines)
    IN  /\ phases' = ph
        /\ IF at = "gathering" /\ Rejected(ph)
           THEN /\ pc' = "errored"
                /\ project' = proj
                /\ log' = verbose(verboseFlag, lg, Catch(err))
                /\ writes' = writes
           ELSE IF at = "gathering" /\ Fulfilled(ph)
           THEN LET ix == setProjectIndex(proj, args.index)
                    outfile == OutFile(cwd, args.out, proj.package)
                IN  /\ pc' = "writing"
                    /\ project' = ix.project
                    /\ log' = verbose(verboseFlag, lg, ix.lines)
                    /\ writes' = Append(writes, [filename |-> outfile,
                                                 contents |-> ix.project])
           ELSE /\ pc' = at
                /\ project' = proj
                /\ log' = lg
                /\ writes' = writes

\* a throw inside createProject or a rejected write: the catch block
Throw(lines, err) ==
    /\ pc' = "errored"
    /\ log' = verbose(verboseFlag, log, lines \o Catch(err))

\* line 192: join(packageName, 'package.json')
ManifestId(name) == <<name, "/", "package", ".", "json">>

PackageJsonFile == <<"package", ".", "json">>

TsConfigFile == <<"tsconfig", ".", "json">>

DojorcFile == <<".", "dojorc">>

\* the values .dojorc may hold
Dojorcs == {<<"build-config">>}

\* the manifests the project may have
ProjectManifests ==
    {PackageJson(n, e.peerDependencies, e.dependencies, e.devDependencies) :
        n \in (IF args \in PathArgsSet THEN PathPackageNames ELSE PackageNames),
        e \in ManifestsWithin(RootName, MaxProjectDecls)}

\* line 111: the error of createProject; its message holds cwd()
MissingRequired(dir) ==
    Error("does not contain a tsconfig.json and package.json", JoinPath(dir))

\* lines 69-75: exists(filename) has resolved
Access(filename, found) == [file |-> filename, readable |-> found]

\* a check that takes every file for present
RequiredAssumed(found) == TRUE

\* line 110: what exists() resolved to for a required file
Required(found) == found

\* a catch block that leaves the loop over the frontier
AbandonFrontier(f) == [f EXCEPT !.i = Len(f.packages) + 1]

\* lines 195-198: the catch block logs and goes on with the next key of the
\* frontier
SkipPackage(f) == [f EXCEPT !.i = f.i + 1]

\* a call that marks the rest of its frontier when it looks up a package
VisitFrontier(parsed, f) ==
    parsed \cup {f.packages[k].name : k \in f.i..Len(f.packages)}

\* line 186: parsedPackages.add(packageName), for the key call f is at
Visit(parsed, f) == parsed \cup {f.packages[f.i].name}

\* The synchronous run of the resolver from r to its next await: a package
\* that is not parsed is added to the set and its manifest is resolved (lines
\* 186-192); if require.resolve throws the loop goes on (lines 195-197),
\* otherwise the call awaits getFile (line 193).  What node_modules holds for
\* a package is drawn when the run first looks at it.  The set of the states
\* the run can end in.
RECURSIVE DepRun(_)
DepRun(r0) ==
    LET r == DepAdvance(r0)
    IN  IF r.phase \notin {"production", "development"} THEN {r}
        ELSE LET f == Top(r.stack)
                 name == f.packages[f.i].name
                 entries == IF r.nodeModules[name].status = "unknown"
                            THEN NodeEntriesWithin(name, r.room)
                            ELSE {r.nodeModules[name]}
                 looked(e) ==
                    [r EXCEPT !.parsed = Visit(@, f),
                              !.resolved[r.phase][name] = @ + 1,
                              !.nodeModules[name] = e,
                              !.room = @ - DeclCount(e),
                              !.lines = Append(@, VLine("resolving dependencies for package",
                                                        <<name>>))]
             IN  UNION {IF e.status = "unresolvable"
                        THEN DepRun([looked(e) EXCEPT
                                !.stack = SetTop(r.stack, SkipPackage(f)),
                                !.lines = Append(@, VLine("missing", ManifestId(name)))])
                        ELSE {[looked(e) EXCEPT !.await = TRUE]} : e \in entries}

\* lines 233-239, to the first await: the production map is seeded and
\* getDependencies is called on it with an empty set
StartDependencies(deps, package, room) ==
    LET seed == SeedProduction(deps.production, package)
    IN  DepRun(DepState(package, "production", <<Frame(seed)>>, {},
                        [deps EXCEPT !.production = seed],
                        <<VLine("resolving production dependecies", <<>>)>>,
                        [encountered EXCEPT !.production = Declared(package)],
                        nodeModules, resolved, room))

\* line 193, resumed: the manifest of the package the innermost call is at was
\* read and parsed, or the await threw (lines 195-197)
ResumeDependencies ==
    LET f == Top(depStack)
        name == f.packages[f.i].name
        e == nodeModules[name]
        r == DepState(project.package, depPhase, depStack, parsedPackages,
                      project.dependencies, <<>>, encountered, nodeModules, resolved,
                      Room)
        next == [f EXCEPT !.i = f.i + 1]
    IN  IF e.status = "ok"
        THEN DepRun([r EXCEPT
                !.stack = SetTop(depStack,
                            [next EXCEPT !.dependencies = MergeManifest(f.dependencies, e),
                                         !.merged = Append(f.merged, name)]),
                !.encountered[depPhase] = @ \o Declared(e),
                !.lines = DependsLines(<<name>>, e)])
        ELSE DepRun([r EXCEPT
                !.stack = SetTop(depStack, SkipPackage(f)),
                !.lines = <<VLine("missing", ManifestId(name))>>])

\* the state of the resolver after a run
CommitDependencies(r) ==
    /\ depPhase' = r.phase
    /\ depStack' = r.stack
    /\ parsedPackages' = r.parsed
    /\ depAwait' = r.await
    /\ nodeModules' = r.nodeModules
    /\ resolved' = r.resolved
    /\ encountered' = r.encountered

\* the manifests whose read a run has issued
ManifestReads(r) ==
    IF r.await
    THEN {ResolvedName(cwd, ManifestId(Top(r.stack).packages[Top(r.stack).i].name))}
    ELSE {}

\* the promise of addDependencies after a run
DependenciesPromise(r) == IF r.phase = "done" THEN "fulfilled" ELSE "pending"

\* lines 353-365, to the first await of createProject
Start ==
    /\ pc = "init"
    /\ verboseFlag' = args.verbose
    /\ \E entered \in BOOLEAN :
        LET dir == ResolveFrom(cwd, args.project)
            banner == <<Line("banner", "Export project bundle", <<>>)>>
        IN  IF entered
            THEN /\ cwd' = dir
                 /\ pc' = "existsPackage"
                 /\ log' = verbose(args.verbose, log,
                                banner \o IF dir # cwd
                                          THEN <<VLine("changing working directory to",
                                                       args.project)>>
                                          ELSE <<>>)
            ELSE \* chdir throws
                 /\ cwd' = cwd
                 /\ pc' = "errored"
                 /\ log' = verbose(args.verbose, log,
                                banner \o Catch(Error("no such directory", args.project)))
    /\ UNCHANGED <<args, accessed, project, phases, taskVars, reads, writes, resolverVars>>

\* line 110: exists('package.json') resolves
ExistsPackage ==
    /\ pc = "existsPackage"
    /\ \E found \in BOOLEAN :
        /\ accessed' = accessed \cup {Access(PackageJsonFile, found)}
        /\ IF Required(found)
           THEN pc' = "existsTsconfig" /\ log' = log
           ELSE Throw(<<>>, MissingRequired(cwd))
    /\ UNCHANGED <<args, cwd, project, phases, taskVars, reads, writes, resolverVars,
                   verboseFlag>>

\* lines 110-115: exists('tsconfig.json') resolves
ExistsTsconfig ==
    /\ pc = "existsTsconfig"
    /\ \E found \in BOOLEAN :
        /\ accessed' = accessed \cup {Access(TsConfigFile, found)}
        /\ IF Required(found)
           THEN /\ pc' = "readPackage"
                /\ log' = verbose(verboseFlag, log, <<VLine("reading", PackageJsonFile)>>)
                /\ reads' = reads \cup {PackageJsonFile}
           ELSE Throw(<<>>, MissingRequired(cwd)) /\ reads' = reads
    /\ UNCHANGED <<args, cwd, project, phases, taskVars, writes, resolverVars, verboseFlag>>

\* lines 115-117: getFile('package.json') settles
ReadPackage ==
    /\ pc = "readPackage"
    /\ \/ /\ Throw(<<>>, Error("cannot read", PackageJsonFile))
          /\ UNCHANGED <<project, reads>>
       \/ \E m \in ProjectManifests :
            /\ project' = [project EXCEPT !.package = m]
            /\ pc' = "readTsconfig"
            /\ log' = verbose(verboseFlag, log, <<VLine("reading", TsConfigFile)>>)
            /\ reads' = reads \cup {TsConfigFile}
    /\ UNCHANGED <<args, accessed, cwd, phases, taskVars, writes, resolverVars, verboseFlag>>

\* lines 117-118: getFile('tsconfig.json') settles
ReadTsconfig ==
    /\ pc = "readTsconfig"
    /\ \/ /\ Throw(<<>>, Error("cannot read", TsConfigFile))
          /\ UNCHANGED project
       \/ \E t \in TsConfigs(Room) :
            /\ project' = [project EXCEPT !.tsconfig = t]
            /\ pc' = "existsDojorc"
            /\ log' = log
    /\ UNCHANGED <<args, accessed, cwd, phases, taskVars, reads, writes, resolverVars, verboseFlag>>

\* a task of addTypesFiles: the await it is at ("manifest", "file",
\* "fallback") or how it ended ("done", "failed"), and the type file it reads
TypesTask(stage, filename) == [stage |-> stage, filename |-> filename]

\* line 257
IncludeExtensions == IF args.content = Undefined THEN DefaultExtensions ELSE args.content

\* lines 254-258: addProjectFiles issues one glob for every pattern of include
StartProjectFiles(include) ==
    [globs |-> [j \in 1..Len(include) |->
                    [pattern |-> RewritePattern(include[j], IncludeExtensions),
                     state |-> "pending",
                     matches |-> <<>>]],
     names |-> <<>>,
     pending |-> {}]

\* the files the globs of include can match
Candidates == IF pc = "files" THEN ProjectTree ELSE SourceFiles

\* Lines 123 and 366-376: createProject returns and the five phases are
\* called in turn, each running to its first await: addLibFiles issues the
\* reads of the libs; addTypesFiles resolves each manifest (`found`) and issues
\* its read; addDefinitionFiles issues its glob; addProjectFiles issues the
\* globs of include; addDependencies runs to its first read.
Dispatch(proj, lines) ==
    LET lib == proj.tsconfig.compilerOptions.lib
        types == proj.tsconfig.compilerOptions.types
        include == proj.tsconfig.include
    IN  \E found \in [1..Len(types) -> BOOLEAN] :
        \E r \in StartDependencies(proj.dependencies, proj.package, RoomOf(proj)) :
            LET lost == {i \in 1..Len(types) : ~found[i]}
                first == CHOOSE i \in lost : \A j \in lost : i <= j
                ph == [p \in Phases |->
                        CASE p = "lib" ->
                                IF lib = <<>> THEN "fulfilled" ELSE "pending"
                          [] p = "types" ->
                                IF lost # {} THEN "rejected"
                                ELSE IF types = <<>> THEN "fulfilled" ELSE "pending"
                          [] p = "definitions" -> "pending"
                          [] p = "files" ->
                                IF include = <<>> THEN "fulfilled" ELSE "pending"
                          [] p = "dependencies" -> DependenciesPromise(r)]
            IN  /\ libTasks' = 1..Len(lib)
                /\ typesTasks' = [i \in 1..Len(types) |->
                                    TypesTask(IF found[i] THEN "manifest" ELSE "failed",
                                              <<>>)]
                /\ defTasks' = [glob |-> "pending", matches |-> <<>>, pending |-> {}]
                /\ fileTasks' = StartProjectFiles(include)
                /\ reads' = reads
                        \cup {LibPath(lib[i]) : i \in 1..Len(lib)}
                        \cup {ResolvedName(cwd, ManifestId(types[i])) :
                                i \in {j \in 1..Len(types) : found[j]}}
                        \cup ManifestReads(r)
                /\ CommitDependencies(r)
                /\ Settle("gathering",
                          [proj EXCEPT !.dependencies = r.dependencies],
                          lines
                            \o [i \in 1..Len(types) |->
                                    VLine("resolving types for package", <<types[i]>>)]
                            \o (IF args.content # Undefined
                                THEN <<VLine("setting project file extensions to",
                                             args.content)>>
                                ELSE <<>>)
                            \o r.lines,
                          ph,
                          IF lost # {} THEN Error("cannot find module", ManifestId(types[first]))
                          ELSE NoError)

\* a bundle that does not take the parsed .dojorc
DiscardDojorc(proj, parsed) == proj

\* line 120: project.dojorc = JSON.parse(...)
SetDojorc(proj, parsed) == [proj EXCEPT !.dojorc = parsed]

\* lines 118-120: exists('.dojorc') resolves
ExistsDojorc ==
    /\ pc = "existsDojorc"
    /\ \/ /\ Room >= 1
          /\ accessed' = accessed \cup {Access(DojorcFile, TRUE)}
          /\ pc' = "readDojorc"
          /\ log' = verbose(verboseFlag, log, <<VLine("reading", DojorcFile)>>)
          /\ reads' = reads \cup {DojorcFile}
          /\ UNCHANGED <<project, phases, taskVars, writes, resolverVars>>
       \/ /\ accessed' = accessed \cup {Access(DojorcFile, FALSE)}
          /\ Dispatch(project, <<>>)
    /\ UNCHANGED <<args, cwd, verboseFlag>>

\* lines 120-123: getFile('.dojorc') settles
ReadDojorc ==
    /\ pc = "readDojorc"
    /\ \/ /\ Throw(<<>>, Error("cannot read", DojorcFile))
          /\ UNCHANGED <<project, phases, taskVars, reads, writes, resolverVars>>
       \/ \E d \in Dojorcs : Dispatch(SetDojorc(project, d), <<>>)
    /\ UNCHANGED <<args, accessed, cwd, verboseFlag>>

\* the promise of Promise.all(tasks) of a phase after one of its tasks ended
\* well: a rejection stays, and the last task fulfils it
AllOf(promise, finished) ==
    IF promise = "rejected" THEN "rejected"
    ELSE IF finished THEN "fulfilled" ELSE promise

\* project.environmentFiles.push(file)
PushEnvironmentFile(proj, file) ==
    [proj EXCEPT !.environmentFiles = Append(@, file)]

\* lines 135-142: the read of a lib settles
LibRead ==
    /\ \E i \in libTasks :
        LET lib == project.tsconfig.compilerOptions.lib[i]
        IN  /\ libTasks' = libTasks \ {i}
            /\ \/ Settle(pc,
                         PushEnvironmentFile(project,
                            createProjectFile(LibFileName(lib), TextOf(LibPath(lib)), "Lib")),
                         <<VLine("adding lib", <<lib>>)>>,
                         [phases EXCEPT !.lib = AllOf(@, libTasks = {i})],
                         NoError)
               \/ Settle(pc, project, <<>>, [phases EXCEPT !.lib = "rejected"],
                         Error("cannot read", LibPath(lib)))
    /\ UNCHANGED <<args, accessed, cwd, typesTasks, defTasks, fileTasks, reads, resolverVars,
                   verboseFlag>>

TypesFinished(tasks) == \A i \in 1..Len(tasks) : tasks[i].stage = "done"

\* a task in which an index.d.ts that does not resolve is an error as well
StageFallbackFatal(found, typings) ==
    IF found
    THEN IF typings # Undefined THEN "file" ELSE "fallback"
    ELSE "failed"

\* lines 290-308: where the task of a types package is once its manifest is
\* parsed.  With typings, requireResolve of line 294 throws out of the task
\* ("failed") or the type file is read ("file"); without, requireResolve of
\* line 304 throws into the catch of line 308 ("done") or index.d.ts is read
\* ("fallback")
StageAfterManifest(found, typings) ==
    IF found
    THEN IF typings # Undefined THEN "file" ELSE "fallback"
    ELSE IF typings # Undefined THEN "failed" ELSE "done"

\* lines 284-308: the read of the manifest of a types package settles
TypesManifestRead ==
    /\ \E i \in 1..Len(typesTasks) :
        LET packageName == project.tsconfig.compilerOptions.types[i]
            packageJsonFilename == ResolvedName(cwd, ManifestId(packageName))
        IN  /\ typesTasks[i].stage = "manifest"
            /\ \/ /\ typesTasks' = [typesTasks EXCEPT ![i] = TypesTask("failed", <<>>)]
                  /\ reads' = reads
                  /\ Settle(pc, project, <<>>, [phases EXCEPT !.types = "rejected"],
                            Error("cannot read", packageJsonFilename))
               \/ \E packageJson \in TypesManifests, found \in BOOLEAN :
                    LET typings == IF packageJson.typings # Undefined
                                   THEN packageJson.typings ELSE packageJson.types
                        mid == IF typings # Undefined
                               THEN Join(<<packageName>>, typings)
                               ELSE Join(<<packageName>>, <<"index", ".", "d", ".", "ts">>)
                        filename == ResolvedName(cwd, mid)
                        stage == StageAfterManifest(found, typings)
                        tasks == [typesTasks EXCEPT ![i] = TypesTask(stage, filename)]
                    IN  /\ typesTasks' = tasks
                        /\ reads' = IF found THEN reads \cup {filename} ELSE reads
                        /\ Settle(pc,
                                  PushEnvironmentFile(project,
                                    createProjectFile(packageJsonFilename,
                                                      Stringify(packageJson), "JSON")),
                                  IF typings # Undefined THEN <<>>
                                  ELSE <<Line("warn", "does not contain type information",
                                              packageJsonFilename)>>,
                                  [phases EXCEPT !.types =
                                        IF stage = "failed" THEN "rejected"
                                        ELSE AllOf(@, TypesFinished(tasks))],
                                  Error("cannot find module", mid))
    /\ UNCHANGED <<args, accessed, cwd, libTasks, defTasks, fileTasks, resolverVars, verboseFlag>>

\* lines 297-298 and 305-308: the read of a type file settles
TypesFileRead ==
    /\ \E i \in 1..Len(typesTasks) :
        LET filename == typesTasks[i].filename
            done == [typesTasks EXCEPT ![i] = TypesTask("done", filename)]
        IN  /\ typesTasks[i].stage \in {"file", "fallback"}
            /\ \/ /\ typesTasks' = done
                  /\ Settle(pc,
                            PushEnvironmentFile(project,
                                createProjectFile(filename, TextOf(filename), "Definition")),
                            <<VLine("adding type file", filename)>>,
                            [phases EXCEPT !.types = AllOf(@, TypesFinished(done))],
                            NoError)
               \/ /\ typesTasks[i].stage = "file"
                  /\ typesTasks' = [typesTasks EXCEPT ![i] = TypesTask("failed", filename)]
                  /\ Settle(pc, project, <<>>, [phases EXCEPT !.types = "rejected"],
                            Error("cannot read", filename))
               \/ \* line 308: the error is swallowed
                  /\ typesTasks[i].stage = "fallback"
                  /\ typesTasks' = done
                  /\ Settle(pc, project, <<>>,
                            [phases EXCEPT !.types = AllOf(@, TypesFinished(done))],
                            NoError)
    /\ UNCHANGED <<args, accessed, cwd, libTasks, defTasks, fileTasks, reads, resolverVars,
                   verboseFlag>>

\* lines 322-333: the glob of the definition files settles
DefinitionsGlob ==
    /\ defTasks.glob = "pending"
    /\ \/ /\ defTasks' = [defTasks EXCEPT !.glob = "failed"]
          /\ reads' = reads
          /\ Settle(pc, project, <<>>, [phases EXCEPT !.definitions = "rejected"],
                    Error("cannot glob", DefinitionsPattern))
       \/ \E files \in GlobResults(DefinitionsPattern, DefinitionFiles, Room) :
            LET tasks == {k \in 1..Len(files) : ~DojoExcluded(files[k])}
            IN  /\ defTasks' = [glob |-> "done", matches |-> files, pending |-> tasks]
                /\ reads' = reads \cup {files[k] : k \in tasks}
                /\ Settle(pc, project, <<>>,
                          [phases EXCEPT !.definitions = AllOf(@, tasks = {})],
                          NoError)
    /\ UNCHANGED <<args, accessed, cwd, libTasks, typesTasks, fileTasks, resolverVars, verboseFlag>>

\* lines 329-330: the read of a definition file settles
DefinitionRead ==
    /\ \E k \in defTasks.pending :
        LET filename == defTasks.matches[k]
        IN  /\ defTasks' = [defTasks EXCEPT !.pending = @ \ {k}]
            /\ \/ Settle(pc,
                         PushEnvironmentFile(project,
                            createProjectFile(filename, TextOf(filename), "Definition")),
                         <<VLine("adding definition file", filename)>>,
                         [phases EXCEPT !.definitions = AllOf(@, defTasks.pending = {k})],
                         NoError)
               \/ Settle(pc, project, <<>>, [phases EXCEPT !.definitions = "rejected"],
                         Error("cannot read", filename))
    /\ UNCHANGED <<args, accessed, cwd, libTasks, typesTasks, fileTasks, reads, resolverVars,
                   verboseFlag>>

\* the elements of q, each at its first place only
RECURSIVE Distinct(_)
Distinct(q) ==
    IF q = <<>> THEN <<>>
    ELSE LET front == Distinct(SubSeq(q, 1, Len(q) - 1))
         IN  IF \E i \in 1..Len(front) : front[i] = q[Len(q)] THEN front
             ELSE Append(front, q[Len(q)])

\* a concatenation that drops the matches an earlier pattern reported
RECURSIVE ConcatDistinct(_)
ConcatDistinct(lists) ==
    IF lists = <<>> THEN <<>> ELSE Distinct(Head(lists) \o ConcatDistinct(Tail(lists)))

\* [].concat(...globs)
RECURSIVE Concat(_)
Concat(lists) ==
    IF lists = <<>> THEN <<>> ELSE Head(lists) \o Concat(Tail(lists))

\* lines 255-269: one of the globs of include settles; when all have, the
\* matches are concatenated in the order of include and every read is issued
FilesGlob ==
    /\ \E j \in 1..Len(fileTasks.globs) :
        LET g == fileTasks.globs[j]
        IN  /\ g.state = "pending"
            /\ \/ /\ fileTasks' = [fileTasks EXCEPT !.globs[j].state = "failed"]
                  /\ reads' = reads
                  /\ Settle(pc, project, <<>>, [phases EXCEPT !.files = "rejected"],
                            Error("cannot glob", g.pattern))
               \/ \E matches \in GlobResults(g.pattern, Candidates, Room) :
                    LET globs == [fileTasks.globs EXCEPT
                                    ![j] = [g EXCEPT !.state = "done", !.matches = matches]]
                        all == \A k \in 1..Len(globs) : globs[k].state = "done"
                        files == Concat([k \in 1..Len(globs) |-> globs[k].matches])
                    IN  IF all
                        THEN /\ fileTasks' = [globs |-> globs, names |-> files,
                                              pending |-> 1..Len(files)]
                             /\ reads' = reads \cup {files[k] : k \in 1..Len(files)}
                             /\ Settle(pc, project, <<>>,
                                       [phases EXCEPT !.files = AllOf(@, files = <<>>)],
                                       NoError)
                        ELSE /\ fileTasks' = [fileTasks EXCEPT !.globs = globs]
                             /\ reads' = reads
                             /\ Settle(pc, project, <<>>, phases, NoError)
    /\ UNCHANGED <<args, accessed, cwd, libTasks, typesTasks, defTasks, resolverVars, verboseFlag>>

\* lines 261-267: the read of a project file settles
FileRead ==
    /\ \E k \in fileTasks.pending :
        LET name == fileTasks.names[k]
        IN  /\ fileTasks' = [fileTasks EXCEPT !.pending = @ \ {k}]
            /\ \/ Settle(pc,
                         [project EXCEPT !.files =
                            Append(@, [name |-> name, text |-> TextOf(name),
                                       type |-> getProjectFileType(name)])],
                         <<VLine("adding project file", name)>>,
                         [phases EXCEPT !.files = AllOf(@, fileTasks.pending = {k})],
                         NoError)
               \/ Settle(pc, project, <<>>, [phases EXCEPT !.files = "rejected"],
                         Error("cannot read", name))
    /\ UNCHANGED <<args, accessed, cwd, libTasks, typesTasks, defTasks, reads, resolverVars,
                   verboseFlag>>

\* lines 193-224 and 239-244: the read of a manifest settles and the resolver
\* runs on to its next read or to the end of addDependencies
DepRead ==
    /\ depAwait
    /\ \E r \in ResumeDependencies :
        /\ CommitDependencies(r)
        /\ reads' = reads \cup ManifestReads(r)
        /\ Settle(pc, [project EXCEPT !.dependencies = r.dependencies], r.lines,
                  [phases EXCEPT !.dependencies = DependenciesPromise(r)], NoError)
    /\ UNCHANGED <<args, accessed, cwd, taskVars, verboseFlag>>

\* lines 384-391: writeFile settles
WriteFile ==
    /\ pc = "writing"
    /\ \/ /\ pc' = "written"
          /\ log' = verbose(verboseFlag, log,
                        <<Line("exported", "to",
                               ExportedPath(cwd, writes[Len(writes)].filename))>>)
       \/ Throw(<<>>, Error("cannot write", writes[Len(writes)].filename))
    /\ UNCHANGED <<args, accessed, cwd, project, phases, taskVars, reads, writes, resolverVars,
                   verboseFlag>>

\* addDependencies called on its own, lines 233-239
AddDependencies ==
    /\ pc = "unit"
    /\ depPhase = "idle"
    /\ \E r \in StartDependencies(project.dependencies, project.package, Room) :
        /\ CommitDependencies(r)
        /\ reads' = reads \cup ManifestReads(r)
        /\ Settle(pc, [project EXCEPT !.dependencies = r.dependencies], r.lines,
                  [phases EXCEPT !.dependencies = DependenciesPromise(r)], NoError)
    /\ UNCHANGED <<args, accessed, cwd, taskVars, verboseFlag>>

\* addLibFiles and addProjectFiles called on their own, lines 131-145 and
\* 253-258: the reads of the libs and the globs of include are issued
AddFiles ==
    /\ pc = "files"
    /\ phases.files = "idle"
    /\ LET lib == project.tsconfig.compilerOptions.lib
           include == project.tsconfig.include
       IN  /\ libTasks' = 1..Len(lib)
           /\ fileTasks' = StartProjectFiles(include)
           /\ reads' = reads \cup {LibPath(lib[i]) : i \in 1..Len(lib)}
           /\ Settle(pc, project, <<>>,
                     [phases EXCEPT
                        !.lib = IF lib = <<>> THEN "fulfilled" ELSE "pending",
                        !.files = IF include = <<>> THEN "fulfilled" ELSE "pending"],
                     NoError)
    /\ UNCHANGED <<args, accessed, cwd, typesTasks, defTasks, resolverVars, verboseFlag>>

(***************************************************************************)
(* The specifications.                                                     *)
(***************************************************************************)
Idle ==
    /\ cwd = InitialCwd
    /\ project = EmptyProject
    /\ phases = [p \in Phases |-> "idle"]
    /\ libTasks = {}
    /\ typesTasks = <<>>
    /\ defTasks = [glob |-> "idle", matches |-> <<>>, pending |-> {}]
    /\ fileTasks = [globs |-> <<>>, names |-> <<>>, pending |-> {}]
    /\ accessed = {}
    /\ reads = {}
    /\ writes = <<>>
    /\ nodeModules = [p \in Packages |-> UnknownEntry]
    /\ depPhase = "idle"
    /\ depStack = <<>>
    /\ parsedPackages = {}
    /\ depAwait = FALSE
    /\ resolved = [res \in {"production", "development"} |-> [p \in Packages |-> 0]]
    /\ encountered = [production |-> <<>>, development |-> <<>>]
    /\ verboseFlag = FALSE
    /\ log = <<>>

\* a call of exportProject
Init ==
    /\ args \in ArgsSet
    /\ pc = "init"
    /\ Idle

Next ==
    \/ Start
    \/ ExistsPackage
    \/ ExistsTsconfig
    \/ ReadPackage
    \/ ReadTsconfig
    \/ ExistsDojorc
    \/ ReadDojorc
    \/ LibRead
    \/ TypesManifestRead
    \/ TypesFileRead
    \/ DefinitionsGlob
    \/ DefinitionRead
    \/ FilesGlob
    \/ FileRead
    \/ DepRead
    \/ WriteFile

Spec == Init /\ [][Next]_vars

\* the manifests of the project in the runs of the resolver on its own
RootManifests ==
    {PackageJson(<<RootName>>, e.peerDependencies, e.dependencies, e.devDependencies) :
        e \in ManifestsWithin(RootName, MaxDecls)}

\* a call of addDependencies on a bundle whose manifest was read
InitDeps ==
    /\ args = ExportArgs(Undefined, Undefined, <<".">>, <<".">>, FALSE)
    /\ pc = "unit"
    /\ cwd = InitialCwd
    /\ \E m \in RootManifests : project = [EmptyProject EXCEPT !.package = m]
    /\ phases = [p \in Phases |-> "idle"]
    /\ libTasks = {}
    /\ typesTasks = <<>>
    /\ defTasks = [glob |-> "idle", matches |-> <<>>, pending |-> {}]
    /\ fileTasks = [globs |-> <<>>, names |-> <<>>, pending |-> {}]
    /\ accessed = {}
    /\ reads = {}
    /\ writes = <<>>
    /\ nodeModules = [p \in Packages |-> UnknownEntry]
    /\ depPhase = "idle"
    /\ depStack = <<>>
    /\ parsedPackages = {}
    /\ depAwait = FALSE
    /\ resolved = [res \in {"production", "development"} |-> [p \in Packages |-> 0]]
    /\ encountered = [production |-> <<>>, development |-> <<>>]
    /\ verboseFlag = FALSE
    /\ log = <<>>

NextDeps == AddDependencies \/ DepRead

SpecDeps == InitDeps /\ [][NextDeps]_vars

\* the content lists of the runs of addProjectFiles on its own
FilesContents == {Undefined, <<"ts,tsx,txt">>}

\* the tsconfig.json files of those runs, with at most two patterns in
\* include: an entry of lib and a pattern of include may be listed twice
FilesTsConfigs ==
    {TsConfig(lib, <<>>, include) :
        lib \in Seqs(LibNames, MaxFiles),
        include \in Seqs(FilesIncludePatterns, 2)}

\* a call of addLibFiles and addProjectFiles on a bundle whose tsconfig.json
\* was read
InitFiles ==
    /\ \E c \in FilesContents : args = ExportArgs(c, Undefined, <<".">>, <<".">>, FALSE)
    /\ pc = "files"
    /\ cwd = InitialCwd
    /\ \E t \in FilesTsConfigs : project = [EmptyProject EXCEPT !.tsconfig = t]
    /\ phases = [p \in Phases |-> "idle"]
    /\ libTasks = {}
    /\ typesTasks = <<>>
    /\ defTasks = [glob |-> "idle", matches |-> <<>>, pending |-> {}]
    /\ fileTasks = [globs |-> <<>>, names |-> <<>>, pending |-> {}]
    /\ accessed = {}
    /\ reads = {}
    /\ writes = <<>>
    /\ nodeModules = [p \in Packages |-> UnknownEntry]
    /\ depPhase = "idle"
    /\ depStack = <<>>
    /\ parsedPackages = {}
    /\ depAwait = FALSE
    /\ resolved = [res \in {"production", "development"} |-> [p \in Packages |-> 0]]
    /\ encountered = [production |-> <<>>, development |-> <<>>]
    /\ verboseFlag = FALSE
    /\ log = <<>>

NextFiles == AddFiles \/ LibRead \/ FilesGlob \/ FileRead

SpecFiles == InitFiles /\ [][NextFiles]_vars

\* a call of exportProject that varies out and project
InitArgs ==
    /\ args \in PathArgsSet
    /\ pc = "init"
    /\ Idle

SpecArgs == InitArgs /\ [][Next]_vars

(***************************************************************************)
(* Properties of the dependency resolver.                                  *)
(***************************************************************************)
DeclaresName(packageJson, x) ==
    HasKey(packageJson.peerDependencies, x) \/ HasKey(packageJson.dependencies, x)

Frames == {depStack[k] : k \in 1..Len(depStack)}

\* the places in the merge order of call f whose manifest declares x
DeclarersIn(f, x) ==
    {i \in 1..Len(f.merged) : DeclaresName(nodeModules[f.merged[i]], x)}

Min(S) == CHOOSE i \in S : \A j \in S : i <= j
Max(S) == CHOOSE i \in S : \A j \in S : i >= j

\* C1 as stated: in the accumulator of one frontier pass, a name declared by
\* several frontier packages keeps the version of the first package, in
\* frontier order, that declares it.
C1_FirstWriteWinsInPass ==
    \A f \in Frames : \A x \in Keys(f.dependencies) :
        DeclarersIn(f, x) # {} /\
        Get(f.dependencies, x).of = f.merged[Min(DeclarersIn(f, x))]

\* C1 (amended): in the accumulator of one frontier pass every name has the
\* version of the LAST frontier package, in frontier order, whose manifest
\* declares it: a later package overwrites an earlier one.
C1_LastWriteWinsInPass ==
    \A f \in Frames : \A x \in Keys(f.dependencies) :
        DeclarersIn(f, x) # {} /\
        Get(f.dependencies, x).of = f.merged[Max(DeclarersIn(f, x))]

\* two packages of one pass declare the same name, and the later one's
\* version is in the accumulator
C1_Witness ==
    \E f \in Frames : \E x \in Keys(f.dependencies) :
        /\ Cardinality(DeclarersIn(f, x)) >= 2
        /\ Get(f.dependencies, x).of = f.merged[Max(DeclarersIn(f, x))]
        /\ Get(f.dependencies, x).of # f.merged[Min(DeclarersIn(f, x))]

Resolutions == {"production", "development"}

\* the resolutions whose result is final
Finished(res) ==
    IF res = "production" THEN depPhase \in {"development", "done"}
    ELSE depPhase = "done"

EncountersOf(res, x) ==
    {i \in 1..Len(encountered[res]) : encountered[res][i].name = x}

\* C2 as stated: every name of a finished result map has the version under
\* which it was first encountered in traversal order (the root seed, then
\* level by level in frontier order).
C2_FirstEncounterWins ==
    \A res \in Resolutions : Finished(res) =>
        \A x \in Keys(project.dependencies[res]) :
            EncountersOf(res, x) # {} /\
            Get(project.dependencies[res], x) =
                encountered[res][Min(EncountersOf(res, x))].version

\* C2 (amended): every name of a finished result map has the version under
\* which it was LAST encountered in traversal order: a version declared at a
\* deeper level replaces the one of the root manifest or of a shallower level.
C2_LastEncounterWins ==
    \A res \in Resolutions : Finished(res) =>
        /\ Keys(project.dependencies[res]) =
                {encountered[res][i].name : i \in 1..Len(encountered[res])}
        /\ \A x \in Keys(project.dependencies[res]) :
                Get(project.dependencies[res], x) =
                    encountered[res][Max(EncountersOf(res, x))].version

\* a name the root manifest declares ends with the version of a dependency
C2_Witness ==
    /\ depPhase = "done"
    /\ \E x \in Keys(project.package.dependencies) :
            Get(project.dependencies.production, x).of # RootName

InBoth(packageJson) ==
    Keys(packageJson.peerDependencies) \cap Keys(packageJson.dependencies)

\* C3: a name that one manifest declares in peerDependencies and in
\* dependencies gets the version of dependencies when that manifest is merged:
\* in the production seed, for the project's manifest, and in the accumulator
\* of the call that merged it last, for a dependency's manifest.
C3_DependenciesBeatPeers ==
    /\ (depPhase = "production" /\ depStack # <<>>) =>
            \A y \in InBoth(project.package) :
                Get(depStack[1].packages, y) = Get(project.package.dependencies, y)
    /\ \A f \in Frames : f.merged # <<>> =>
            LET e == nodeModules[f.merged[Len(f.merged)]]
            IN  \A y \in InBoth(e) :
                    Get(f.dependencies, y) = Get(e.dependencies, y)

\* a call has just merged a manifest that declares a name in both sections
C3_Witness ==
    \E f \in Frames :
        /\ f.merged # <<>>
        /\ InBoth(nodeModules[f.merged[Len(f.merged)]]) # {}

\* what is left to do: the packages a resolution has not resolved yet count
\* twice (a resolve and a read), a pending read and the start once
Unresolved(res) == Cardinality({p \in Packages : resolved[res][p] = 0})

Measure ==
    (IF depPhase = "idle" THEN 1 ELSE 0)
        + 2 * (Unresolved("production") + Unresolved("development"))
        + (IF depAwait THEN 1 ELSE 0)

\* C4: one resolution resolves the manifest of each package at most once, and
\* it terminates whatever the dependency graph, cycles included: every step
\* of the resolver decreases Measure, a natural number, and until
\* addDependencies has ended one of its steps can be taken (it is about to
\* start, or awaits a read that will complete).
C4_CycleSafety ==
    /\ [](\A res \in Resolutions : \A p \in Packages : resolved[res][p] <= 1)
    /\ [](depPhase = "done" \/ depPhase = "idle" \/ depAwait)
    /\ [][Measure' < Measure]_vars

\* a resolution that met a cycle (a self-dependency, or two packages that
\* depend on each other) has ended
C4_Witness ==
    /\ depPhase = "done"
    /\ \E a, b \in Packages :
        /\ resolved["production"][a] = 1 /\ resolved["production"][b] = 1
        /\ a # b
        /\ DeclaresName(nodeModules[a], b)
        /\ DeclaresName(nodeModules[b], a)

Missing(p) == nodeModules[p].status \in {"unresolvable", "unreadable"}

\* the versions under which a resolution met a name
VersionsMet(res, x) ==
    {encountered[res][i].version : i \in EncountersOf(res, x)}

\* C15: a package whose manifest cannot be resolved, read or parsed is
\* skipped.  No call merges anything for it; addDependencies is never
\* rejected and the run never ends in the catch block because of it; and when
\* a resolution has ended, every name it met, those that follow a missing
\* package in a frontier included, was looked up exactly once and is in the
\* result map, a missing package under a version one of its dependents
\* declared.
C15_MissingManifestTolerated ==
    /\ phases.dependencies # "rejected"
    /\ pc # "errored"
    /\ \A f \in Frames : \A i \in 1..Len(f.merged) : nodeModules[f.merged[i]].status = "ok"
    /\ \A res \in Resolutions : Finished(res) =>
            \A i \in 1..Len(encountered[res]) :
                LET x == encountered[res][i].name
                IN  /\ resolved[res][x] = 1
                    /\ HasKey(project.dependencies[res], x)
                    /\ Get(project.dependencies[res], x) \in VersionsMet(res, x)

\* the project depends on a package whose manifest is missing and, after it,
\* on one whose manifest declares a dependency: the resolution has ended with
\* the missing package and the dependency of the other one in the map
C15_Witness ==
    /\ depPhase = "done"
    /\ \E i, j \in 1..Len(project.package.dependencies) :
            LET m == project.package.dependencies[i].name
                b == project.package.dependencies[j].name
            IN  /\ i < j
                /\ Missing(m)
                /\ HasKey(project.dependencies.production, m)
                /\ Get(project.dependencies.production, m) = Version(RootName, "dependencies")
                /\ nodeModules[b].status = "ok"
                /\ Len(nodeModules[b].dependencies) > 0
                /\ \A k \in 1..Len(nodeModules[b].dependencies) :
                        HasKey(project.dependencies.production,
                               nodeModules[b].dependencies[k].name)

\* getDependencies as a function of the frontier, the set of parsed packages
\* and the manifests under node_modules and of nothing else: one pass over
\* the frontier from its key i on, lines 184-220
RECURSIVE FrontierPass(_, _, _, _, _)
FrontierPass(packages, i, acc, parsed, nm) ==
    IF i > Len(packages) THEN [dependencies |-> acc, parsed |-> parsed]
    ELSE LET name == packages[i].name
         IN  IF name \in parsed THEN FrontierPass(packages, i + 1, acc, parsed, nm)
             ELSE FrontierPass(packages, i + 1,
                               IF nm[name].status = "ok"
                               THEN MergeManifest(acc, nm[name]) ELSE acc,
                               parsed \cup {name}, nm)

\* lines 181-227
RECURSIVE DependenciesOf(_, _, _)
DependenciesOf(packages, parsed, nm) ==
    LET pass == FrontierPass(packages, 1, <<>>, parsed, nm)
    IN  IF pass.dependencies = <<>> THEN pass
        ELSE LET deeper == DependenciesOf(pass.dependencies, pass.parsed, nm)
             IN  [dependencies |-> MergeResult(pass.dependencies, deeper.dependencies),
                  parsed |-> deeper.parsed]

\* lines 243-244 as a function of devDependencies and node_modules
DevelopmentOf(devDependencies, nm) ==
    LET seed == ObjectAssign(<<>>, devDependencies)
    IN  ObjectAssign(seed, DependenciesOf(seed, {}, nm).dependencies)

\* C16: the two resolutions are independent.  When addDependencies has
\* ended, dependencies.development is the value of a function of the
\* manifest's devDependencies and of the manifests under node_modules alone,
\* which starts from an empty visited set: it is the same whatever the
\* project's dependencies and peerDependencies are and whatever the
\* production resolution visited.  A name in both maps was looked up once
\* by each resolution.
C16_IndependentResolutions ==
    depPhase = "done" =>
        /\ project.dependencies.development =
                DevelopmentOf(project.package.devDependencies, nodeModules)
        /\ \A x \in Keys(project.dependencies.production)
                    \cap Keys(project.dependencies.development) :
                resolved["production"][x] = 1 /\ resolved["development"][x] = 1

\* a package with a manifest is in both maps, with different versions, and
\* both resolutions merged its dependency
C16_Witness ==
    /\ depPhase = "done"
    /\ \E x \in Keys(project.dependencies.production)
                \cap Keys(project.dependencies.development) :
            /\ Get(project.dependencies.production, x) #
                    Get(project.dependencies.development, x)
            /\ nodeModules[x].status = "ok"
            /\ Len(nodeModules[x].dependencies) > 0
            /\ \A k \in 1..Len(nodeModules[x].dependencies) :
                    LET y == nodeModules[x].dependencies[k].name
                    IN  /\ HasKey(project.dependencies.production, y)
                        /\ HasKey(project.dependencies.development, y)

\* the name is in a section of the project's own manifest
RootDeclares(x) ==
    \/ DeclaresName(project.package, x)
    \/ HasKey(project.package.devDependencies, x)

\* the manifests the run has read
ManifestsRead == {p \in Packages : nodeModules[p].status = "ok"}

\* the name is in the peerDependencies or the dependencies of a manifest the
\* run has read
DependencyDeclares(x) == \E p \in ManifestsRead : DeclaresName(nodeModules[p], x)

\* C17: the devDependencies of a dependency never contribute.  A name that
\* is not in the project's own manifest and in no peerDependencies or
\* dependencies of a manifest the run has read, whatever devDependencies
\* declare it, is in neither result map, and its manifest was never resolved.
C17_TransitiveDevIgnored ==
    \A x \in Packages :
        (~RootDeclares(x) /\ ~DependencyDeclares(x)) =>
            /\ ~HasKey(project.dependencies.production, x)
            /\ ~HasKey(project.dependencies.development, x)
            /\ \A res \in Resolutions : resolved[res][x] = 0
            /\ nodeModules[x].status = "unknown"
            /\ \A f \in Frames : ~HasKey(f.packages, x) /\ ~HasKey(f.dependencies, x)

\* both resolutions have ended after reading a manifest whose devDependencies
\* declare a name that nothing else declares
C17_Witness ==
    /\ depPhase = "done"
    /\ \E x \in Packages, p \in ManifestsRead :
            /\ HasKey(nodeModules[p].devDependencies, x)
            /\ ~RootDeclares(x)
            /\ ~DependencyDeclares(x)
            /\ resolved["production"][p] = 1
            /\ resolved["development"][p] = 1

(***************************************************************************)
(* Properties of exportProject.                                            *)
(***************************************************************************)
\* the places of the lines of one kind in the log
LinesOf(kind) == {i \in 1..Len(log) : log[i].kind = kind}

RejectedPhases == {p \in Phases : phases[p] = "rejected"}

\* C5: no partial bundle is written: writeFile is called at most once, and
\* only when both required files were found and all five gathering phases
\* are fulfilled, with the bundle as the phases left it; in a run in which a
\* phase was rejected no write is issued, whatever the other phases do later.
C5_NoPartialBundle ==
    /\ Len(writes) <= 1
    /\ writes # <<>> =>
        /\ \A p \in Phases : phases[p] = "fulfilled"
        /\ \E a \in accessed : a.file = PackageJsonFile /\ a.readable
        /\ \E a \in accessed : a.file = TsConfigFile /\ a.readable
        /\ writes[1].contents = project
    /\ RejectedPhases # {} => writes = <<>>

\* a bundle with a project file and an environment file was written
C5_Witness ==
    /\ pc = "written"
    /\ Len(writes) = 1
    /\ writes[1].contents.files # <<>>
    /\ writes[1].contents.environmentFiles # <<>>

\* what C6 says of every run that met a fatal condition, but for the count of
\* lines: the rejection was caught; the log starts with the banner, holds one
\* "errored" line, then at once the one "stack" line, and no "exported" line
ReportedOnce ==
    /\ RejectedPhases # {} => pc = "errored"
    /\ pc # "errored" => LinesOf("errored") = {} /\ LinesOf("stack") = {}
    /\ pc = "errored" =>
        /\ log[1].kind = "banner"
        /\ Cardinality(LinesOf("errored")) = 1
        /\ Cardinality(LinesOf("stack")) = 1
        /\ \A i \in LinesOf("errored") : i + 1 \in LinesOf("stack")
        /\ LinesOf("exported") = {}

\* C6 as stated: a fatal condition is reported once, as two lines after the
\* banner, and with verbose off the log of such a run has exactly three lines.
C6_ThreeLinesWhenQuiet ==
    /\ ReportedOnce
    /\ (pc = "errored" /\ ~verboseFlag) => Len(log) = 3

\* C6 (amended): a fatal condition is reported once, as two lines after the
\* banner; with verbose off the log of such a run has these three lines and
\* one more line for every warning of a types package without type
\* information and for an index that was not found.
C6_SingleRecoveryPoint ==
    /\ ReportedOnce
    /\ (pc = "errored" /\ ~verboseFlag) =>
            Len(log) = 3 + Cardinality(LinesOf("warn")) + Cardinality(LinesOf("error"))

\* two phases were rejected in a run with verbose off that also logged a
\* warning
C6_Witness ==
    /\ pc = "errored"
    /\ ~verboseFlag
    /\ Cardinality(RejectedPhases) >= 2
    /\ LinesOf("warn") # {}

RequiredMissing ==
    \E a \in accessed : a.file \in {PackageJsonFile, TsConfigFile} /\ ~a.readable

\* C7: when package.json or tsconfig.json is not readable in the working
\* directory the run switched to, the run has ended in "errored" with the
\* message of line 111, which holds that directory and names both files; no
\* file was read, no phase was dispatched and nothing was written.
C7_RequiredFiles ==
    RequiredMissing =>
        /\ pc = "errored"
        /\ cwd = Resolve(InitialCwd, SplitPath(args.project))
        /\ \E i \in LinesOf("errored") :
                /\ log[i].what = "does not contain a tsconfig.json and package.json"
                /\ log[i].about = JoinPath(cwd)
        /\ reads = {}
        /\ project = EmptyProject
        /\ \A p \in Phases : phases[p] = "idle"
        /\ writes = <<>>

\* package.json was found and tsconfig.json was not, in a project directory
\* the run switched to
C7_Witness ==
    /\ RequiredMissing
    /\ \E a \in accessed : a.file = PackageJsonFile /\ a.readable
    /\ cwd # InitialCwd

Requested == IF args.index = Undefined THEN DefaultIndex ELSE args.index

Named(files, name) == \E i \in 1..Len(files) : files[i].name = name

\* C8: once the five phases are fulfilled the bundle is written whether or not
\* the index was found.  In the written bundle index is the requested index
\* if a project file has exactly that name and "" otherwise; in the second
\* case one line of kind "error" about the requested index is in the log,
\* with verbose on or off, and in the first case none.  The files of the
\* bundle are the matched files, one entry each, and the bundle is the
\* project as the phases left it.
C8_IndexValidation ==
    /\ (\A p \in Phases : phases[p] = "fulfilled") => writes # <<>>
    /\ writes = <<>> => project.index = <<>> /\ LinesOf("error") = {}
    /\ writes # <<>> =>
        LET bundle == writes[1].contents
        IN  /\ bundle.index = Requested <=> Named(bundle.files, Requested)
            /\ bundle.index \in {<<>>, Requested}
            /\ Cardinality(LinesOf("error")) =
                    IF Named(bundle.files, Requested) THEN 0 ELSE 1
            /\ \A i \in LinesOf("error") : log[i].about = Requested
            /\ Len(bundle.files) = Len(fileTasks.names)
            /\ \A k \in 1..Len(fileTasks.names) : Named(bundle.files, fileTasks.names[k])
            /\ bundle = [project EXCEPT !.index = bundle.index]

\* a bundle with project files, none of them the requested index, was written
\* with an empty index
C8_Witness ==
    /\ pc = "written"
    /\ writes[1].contents.files # <<>>
    /\ writes[1].contents.index = <<>>
    /\ LinesOf("error") # {}

\* the names of a sequence of project files
NamesOf(files) == [i \in 1..Len(files) |-> files[i].name]

\* C9 as stated: when addProjectFiles is fulfilled, the names of files are the
\* matches of the globs, concatenated in the order of include, whatever the
\* order in which the reads completed.
C9_FilesInMatchOrder ==
    phases.files = "fulfilled" => NamesOf(project.files) = fileTasks.names

\* the entries of environmentFiles that addLibFiles pushed
LibEntries == SelectSeq(project.environmentFiles, LAMBDA f : f.type = "Lib")

\* the entries of environmentFiles that addDefinitionFiles pushed
DefinitionEntries ==
    SelectSeq(project.environmentFiles,
              LAMBDA f : \E k \in 1..Len(DefinitionFiles) : f.name = DefinitionFiles[k])

\* C10 as stated: when addLibFiles is fulfilled the Lib entries are in the
\* order of compilerOptions.lib, and when addDefinitionFiles is fulfilled its
\* entries are in the order the glob reported them, whatever the order in
\* which the reads completed.
C10_PhaseOrder ==
    /\ phases.lib = "fulfilled" =>
            NamesOf(LibEntries) =
                [i \in 1..Len(project.tsconfig.compilerOptions.lib) |->
                    LibFileName(project.tsconfig.compilerOptions.lib[i])]
    /\ phases.definitions = "fulfilled" =>
            NamesOf(DefinitionEntries) =
                SelectSeq(defTasks.matches, LAMBDA f : ~DojoExcluded(f))

(***************************************************************************)
(* Properties of the gathering phases.                                     *)
(***************************************************************************)
\* how often x is in the sequence q
Occurrences(q, x) == Cardinality({i \in 1..Len(q) : q[i] = x})

\* the phase that pushed an entry of environmentFiles
PhaseOf(f) ==
    IF f.type = "Lib" THEN "lib"
    ELSE IF \E k \in 1..Len(DefinitionFiles) : f.name = DefinitionFiles[k]
    THEN "definitions"
    ELSE "types"

\* the places <<glob, place>> at which the globs of include reported a name
Matched(n) ==
    {jk \in (1..Len(fileTasks.globs)) \X (1..Len(Candidates)) :
        /\ jk[2] <= Len(fileTasks.globs[jk[1]].matches)
        /\ fileTasks.globs[jk[1]].matches[jk[2]] = n}

\* the names the globs of include reported
MatchedNames ==
    UNION {{fileTasks.globs[j].matches[k] : k \in 1..Len(fileTasks.globs[j].matches)} :
            j \in 1..Len(fileTasks.globs)}

\* the entries of environmentFiles that addTypesFiles pushed for a manifest
ManifestEntries ==
    SelectSeq(project.environmentFiles,
              LAMBDA f : PhaseOf(f) = "types" /\ f.type = "JSON")

\* C11 as stated: the entries one gathering phase has appended to files or to
\* environmentFiles have pairwise distinct names, also when two patterns of
\* include match the same file or lib or types lists an entry twice.
C11_NoDuplicateNames ==
    /\ \A i, j \in 1..Len(project.files) :
            i < j => project.files[i].name # project.files[j].name
    /\ \A i, j \in 1..Len(project.environmentFiles) :
            (i < j /\ PhaseOf(project.environmentFiles[i]) =
                        PhaseOf(project.environmentFiles[j]))
                => project.environmentFiles[i].name # project.environmentFiles[j].name

\* C11 (amended): a phase appends one entry per occurrence of its input and
\* removes no duplicate.  A name is in files at most as often as the globs of
\* include matched it, and exactly as often once addProjectFiles is fulfilled;
\* the entry of a lib is in environmentFiles at most as often as lib lists it,
\* and exactly as often once addLibFiles is fulfilled; likewise the manifest
\* of a types package; a definition file the glob reported is there at most
\* once.  So the names of a phase are pairwise distinct exactly when no file
\* is matched twice and no entry is listed twice.
C11_OneEntryPerOccurrence ==
    /\ \A k \in 1..Len(project.files) :
            LET n == project.files[k].name
            IN  /\ Occurrences(NamesOf(project.files), n) <= Cardinality(Matched(n))
                /\ phases.files = "fulfilled" =>
                        Occurrences(NamesOf(project.files), n) = Cardinality(Matched(n))
    /\ phases.files = "fulfilled" =>
            \A n \in MatchedNames : Named(project.files, n)
    /\ \A l \in LibNames :
            LET listed == Occurrences(project.tsconfig.compilerOptions.lib, l)
                pushed == Occurrences(NamesOf(LibEntries), LibFileName(l))
            IN  /\ pushed <= listed
                /\ phases.lib = "fulfilled" => pushed = listed
    /\ \A t \in TypesNames :
            LET listed == Occurrences(project.tsconfig.compilerOptions.types, t)
                pushed == Occurrences(NamesOf(ManifestEntries),
                                      ResolvedName(cwd, ManifestId(t)))
            IN  /\ pushed <= listed
                /\ phases.types = "fulfilled" => pushed = listed
    /\ \A k \in 1..Len(DefinitionFiles) :
            Occurrences(NamesOf(DefinitionEntries), DefinitionFiles[k]) <= 1

\* addProjectFiles is fulfilled with a file that two different patterns of
\* include matched, and the file is in files twice
C11_Witness ==
    /\ phases.files = "fulfilled"
    /\ Len(fileTasks.globs) = 2
    /\ project.tsconfig.include[1] # project.tsconfig.include[2]
    /\ \E i, j \in 1..Len(project.files) :
            i < j /\ project.files[i].name = project.files[j].name

(***************************************************************************)
(* Properties of the output file.                                          *)
(***************************************************************************)
\* the directory the argument out denotes from the original working
\* directory
OutDirectory == Resolve(InitialCwd, SplitPath(args.out))

\* the absolute location a write denotes: writeFile resolves its filename
\* against the working directory of the process
WrittenLocation == Resolve(cwd, SplitPath(writes[1].filename))

\* the name of the written file below OutDirectory
WrittenName ==
    JoinPath(SubSeq(WrittenLocation, Len(OutDirectory) + 1, Len(WrittenLocation)))

Separators(str) == {i \in 1..Len(str) : str[i] = "/" \/ str[i] = "\\"}

ProjectJsonSuffix == <<".", "project", ".", "json">>

\* C12: the file that is written is named after the manifest: its name is
\* the manifest's name in which only the first "/" or "\" is replaced by "-",
\* every later separator kept, followed by ".project.json"
\* ("@dojo/widget-core" gives "@dojo-widget-core.project.json"), and it is
\* "bundle.project.json" when the manifest has no name.
C12_FilenameDerivation ==
    writes # <<>> =>
        LET name == writes[1].contents.package.name
            stem == SubSeq(WrittenName, 1, Len(WrittenName) - Len(ProjectJsonSuffix))
        IN  /\ EndsWith(WrittenName, ProjectJsonSuffix)
            /\ name = Undefined => stem = <<"bundle">>
            /\ name # Undefined =>
                /\ Len(stem) = Len(name)
                /\ \A i \in 1..Len(name) :
                        stem[i] = IF i \in Separators(name) /\
                                     (\A j \in Separators(name) : i <= j)
                                  THEN "-" ELSE name[i]
            /\ name = <<"@dojo", "/", "widget-core">> =>
                    WrittenName = <<"@dojo", "-", "widget-core", ".", "project", ".", "json">>

\* a bundle was written for a manifest whose name has two separators, and
\* the second one is in the name of the file
C12_Witness ==
    /\ pc = "written"
    /\ Cardinality(Separators(writes[1].contents.package.name)) = 2
    /\ Cardinality(Separators(WrittenName)) = 1

\* C13: the write is issued after the working directory was changed to the
\* project root, and the file it writes is <original cwd>/<out>/<filename>
\* whatever project and out are, not <project root>/<out>/<filename>.
C13_OutputAnchored ==
    writes # <<>> =>
        /\ cwd = ResolveFrom(InitialCwd, args.project)
        /\ WrittenLocation =
                Resolve(InitialCwd,
                        SplitPath(args.out)
                            \o SplitPath(OutFileName(writes[1].contents.package)))

\* a bundle was written from a project root that is not the original working
\* directory, to a place that out does not denote from the project root
C13_Witness ==
    /\ pc = "written"
    /\ cwd # InitialCwd
    /\ args.out # <<".">>
    /\ WrittenLocation #
            Resolve(cwd, SplitPath(args.out)
                            \o SplitPath(OutFileName(writes[1].contents.package)))

(***************************************************************************)
(* Properties of the types packages.                                       *)
(***************************************************************************)
\* the manifest of a types package names no type file
Untyped(packageJson) ==
    packageJson.typings = Undefined /\ packageJson.types = Undefined

\* the entries of environmentFiles that are untyped manifests at path
UntypedEntries(path) ==
    {k \in 1..Len(project.environmentFiles) :
        LET f == project.environmentFiles[k]
        IN  f.name = path /\ f.type = "JSON" /\ PhaseOf(f) = "types"
                /\ Untyped(f.text.json)}

\* the warnings about the manifest at path
Warnings(path) == {i \in LinesOf("warn") : log[i].about = path}

ManifestPaths == {ResolvedName(cwd, ManifestId(t)) : t \in TypesNames}

\* the index.d.ts of the package of task i
IndexFile(i) ==
    ResolvedName(cwd, Join(<<project.tsconfig.compilerOptions.types[i]>>,
                           <<"index", ".", "d", ".", "ts">>))

\* the step of the task of a types package whose manifest is untyped: the
\* manifest is appended as a JSON entry and the warning is logged
WarningStep ==
    /\ Len(log') > Len(log)
    /\ \E i \in (Len(log) + 1)..Len(log') : log'[i].kind = "warn"

\* a step appends to environmentFiles nothing, or the one entry f
AppendsAtMost(f) ==
    \/ project'.environmentFiles = project.environmentFiles
    \/ project'.environmentFiles = Append(project.environmentFiles, f)

\* C14: a types package whose manifest names no type file is not fatal.
\* Its manifest is appended as a JSON entry and one warning that names the
\* manifest's path is logged, with verbose on or off (as many warnings about
\* a path as untyped manifest entries of that path); that step does not
\* reject addTypesFiles, also when <entry>/index.d.ts does not resolve, in
\* which case the task is done with no further entry.  When index.d.ts
\* resolves its read either appends it as a Definition entry or fails, and
\* in both cases the task is done and addTypesFiles is not rejected.
C14_MissingTypesNonFatal ==
    /\ [](\A path \in ManifestPaths :
            Cardinality(Warnings(path)) = Cardinality(UntypedEntries(path)))
    /\ [][WarningStep =>
            /\ phases'.types = "rejected" => phases.types = "rejected"
            /\ Len(project'.environmentFiles) = Len(project.environmentFiles) + 1
            /\ \E i \in 1..Len(typesTasks) :
                    /\ typesTasks[i].stage = "manifest"
                    /\ typesTasks'[i].stage \in {"fallback", "done"}
                    /\ typesTasks'[i].filename = IndexFile(i)
                    /\ log'[Len(log) + 1].kind = "warn"
                    /\ log'[Len(log) + 1].about =
                            ResolvedName(cwd, ManifestId(
                                project.tsconfig.compilerOptions.types[i]))
                    /\ LET f == project'.environmentFiles[Len(project'.environmentFiles)]
                       IN  /\ f.name = log'[Len(log) + 1].about
                           /\ f.type = "JSON"
                           /\ Untyped(f.text.json)]_vars
    /\ [][\A i \in 1..Len(typesTasks) :
            (typesTasks[i].stage = "fallback" /\ typesTasks'[i].stage # "fallback") =>
                /\ typesTasks'[i].stage = "done"
                /\ phases'.types = "rejected" => phases.types = "rejected"
                /\ AppendsAtMost(createProjectFile(IndexFile(i), TextOf(IndexFile(i)),
                                                   "Definition"))]_vars

\* with verbose off, a bundle was written in a run that warned about an
\* untyped manifest, appended it, and found no index.d.ts for the package
C14_Witness ==
    /\ pc = "written"
    /\ ~verboseFlag
    /\ \E i \in 1..Len(typesTasks) :
            /\ typesTasks[i].stage = "done"
            /\ Warnings(ResolvedName(cwd, ManifestId(
                    project.tsconfig.compilerOptions.types[i]))) # {}
            /\ UntypedEntries(ResolvedName(cwd, ManifestId(
                    project.tsconfig.compilerOptions.types[i]))) # {}
            /\ ~Named(writes[1].contents.environmentFiles, IndexFile(i))

(***************************************************************************)
(* Properties of the definition files and of the classification.           *)
(***************************************************************************)
LoaderInterfaces == <<"@dojo", "/", "loader", "/", "interfaces", ".", "d", ".", "ts">>

\* the path ends in '@dojo/loader/interfaces.d.ts'
IsLoaderInterfaces(path) ==
    /\ Len(path) >= Len(LoaderInterfaces)
    /\ \A i \in 1..Len(LoaderInterfaces) :
            path[Len(path) - Len(LoaderInterfaces) + i] = LoaderInterfaces[i]

\* the places of the entries of environmentFiles with a name
EntriesNamed(path) ==
    {i \in 1..Len(project.environmentFiles) : project.environmentFiles[i].name = path}

\* C18: of the paths the glob of node_modules/{@dojo,@types}/**/*.d.ts
\* reported, one that ends in '@dojo/loader/interfaces.d.ts' is never read
\* and never in environmentFiles; every other one is there at most once, as
\* a Definition entry with the contents of the file, and exactly once when
\* addDefinitionFiles is fulfilled.
C18_DefinitionsDiscovered ==
    \A k \in 1..Len(defTasks.matches) :
        LET path == defTasks.matches[k]
        IN  IF IsLoaderInterfaces(path)
            THEN path \notin reads /\ EntriesNamed(path) = {}
            ELSE /\ Cardinality(EntriesNamed(path)) <= 1
                 /\ \A i \in EntriesNamed(path) :
                        /\ project.environmentFiles[i].type = "Definition"
                        /\ project.environmentFiles[i].text = TextOf(path)
                 /\ defTasks.glob = "done" => path \in reads
                 /\ phases.definitions = "fulfilled" =>
                        Cardinality(EntriesNamed(path)) = 1

\* addDefinitionFiles is fulfilled after the glob reported the excluded file
\* and another one, which was appended
C18_Witness ==
    /\ phases.definitions = "fulfilled"
    /\ \E j, k \in 1..Len(defTasks.matches) :
            /\ IsLoaderInterfaces(defTasks.matches[j])
            /\ ~IsLoaderInterfaces(defTasks.matches[k])
            /\ EntriesNamed(defTasks.matches[k]) # {}

\* the name ends in "." and the extension e
HasExtension(name, e) ==
    Len(name) >= 2 /\ name[Len(name) - 1] = "." /\ name[Len(name)] = e

\* the name ends in ".d.ts"
IsDeclaration(name) ==
    /\ Len(name) >= 4
    /\ name[Len(name) - 3] = "." /\ name[Len(name) - 2] = "d"
    /\ HasExtension(name, "ts")

C20_TsxIsTypeScript ==
    \A i \in 1..Len(project.files) :
        HasExtension(project.files[i].name, "tsx") => project.files[i].type = "TypeScript"

(***************************************************************************)
(* Properties of the globs of include.                                     *)
(***************************************************************************)
\* the allow-list of a run: the content argument, or the default
AllowList ==
    IF args.content = Undefined THEN <<"ts,html,css,json,xml,md">> ELSE args.content

\* the pattern without its last n pieces, followed by the brace list
WithBraces(pattern, n) ==
    SubSeq(pattern, 1, Len(pattern) - n) \o <<".", "{">> \o AllowList \o <<"}">>

DojorcPresent == Access(DojorcFile, TRUE) \in accessed

DojorcAbsent == Access(DojorcFile, FALSE) \in accessed

\* the lines of the log that are about .dojorc
DojorcLines == {i \in 1..Len(log) : log[i].about = DojorcFile}

\* C22: a bundle that was handed to the write has a dojorc field exactly
\* when exists('.dojorc') resolved to true, and the field is then the value
\* that was parsed from the file, which no phase changes.  When
\* exists('.dojorc') resolved to false the file is not read, no line of the
\* log is about it, the bundle has no dojorc, and the step that finds it
\* absent goes on to dispatch the phases: it ends in the catch block only
\* when a manifest of compilerOptions.types cannot be resolved.
C22_DojorcOptional ==
    /\ [](\A i \in 1..Len(writes) :
            LET bundle == writes[i].contents
            IN  /\ bundle.dojorc # Undefined <=> DojorcPresent
                /\ DojorcPresent => bundle.dojorc \in Dojorcs)
    /\ [](DojorcPresent /\ pc \in {"gathering", "writing", "written"} =>
                project.dojorc \in Dojorcs)
    /\ [](DojorcAbsent =>
            /\ project.dojorc = Undefined
            /\ DojorcFile \notin reads
            /\ DojorcLines = {}
            /\ pc # "readDojorc")
    /\ [][(pc = "existsDojorc" /\ Access(DojorcFile, FALSE) \in accessed') =>
            /\ phases'.lib # "idle"
            /\ pc' \in {"gathering", "writing", "errored"}
            /\ pc' = "errored" => phases'.types = "rejected"]_vars

\* a bundle with the parsed .dojorc was written
C22_Witness ==
    /\ pc = "written"
    /\ DojorcPresent
    /\ writes[Len(writes)].contents.dojorc = <<"build-config">>

\* a bundle was written although .dojorc is absent
C22_WitnessAbsent ==
    /\ pc = "written"
    /\ DojorcAbsent
    /\ writes[Len(writes)].contents.dojorc = Undefined

(***************************************************************************)
(* Properties of the log.                                                  *)
(***************************************************************************)
\* the files createProject announces before it reads them
Announced == {PackageJsonFile, TsConfigFile, DojorcFile} \cap reads

\* the verbose lines that say `what` about `about`
VerboseLines(what, about) ==
    {i \in LinesOf("verbose") : log[i].what = what /\ log[i].about = about}

\* the lines log() writes on the way to a written bundle besides the banner
\* and the "exported" line
Complaints == LinesOf("warn") \cup LinesOf("error")

\* C23: the flag is the verbose argument from the first step of the run on.
\* Without it the log holds no line of verbose(); with it the log holds the
\* lines verbose() was called with (the "reading" line of every file
\* createProject has read, the "changing" line of a run that left the
\* directory, the "setting" line of a run with a content list once the
\* phases are dispatched).  The banner of log() is the first line in both
\* modes.  So a run without the flag that has written the bundle and logged
\* no warning about types and no index error has logged two lines: the
\* banner and then the "exported" line.
C23_VerboseGating ==
    /\ pc # "init" =>
            /\ verboseFlag = args.verbose
            /\ Len(log) >= 1
            /\ log[1] = Line("banner", "Export project bundle", <<>>)
    /\ ~args.verbose => LinesOf("verbose") = {}
    /\ (args.verbose /\ pc # "init") =>
            /\ \A f \in Announced : VerboseLines("reading", f) # {}
            /\ (cwd # InitialCwd) =>
                    VerboseLines("changing working directory to", args.project) # {}
            /\ (args.content # Undefined /\ phases.files # "idle") =>
                    VerboseLines("setting project file extensions to", args.content) # {}
    /\ (~args.verbose /\ pc = "written" /\ Complaints = {}) =>
            /\ Len(log) = 2
            /\ log[1].kind = "banner"
            /\ log[2].kind = "exported"

\* a run without the flag has written the bundle and logged two lines; the
\* gathering phases have added files to the bundle
C23_Witness ==
    /\ pc = "written"
    /\ ~args.verbose
    /\ Complaints = {}
    /\ Len(log) = 2
    /\ project.environmentFiles # <<>>
    /\ project.files # <<>>

\* a run with the flag has written the bundle and logged the lines of
\* verbose()
C23_WitnessVerbose ==
    /\ pc = "written"
    /\ args.verbose
    /\ Cardinality(LinesOf("verbose")) >= 4

(***************************************************************************)
(* Properties of the order of exportProject's steps.                       *)
(***************************************************************************)
\* how far exportProject has come
Rank(at) ==
    CASE at = "init"           -> 0
      [] at = "existsPackage"  -> 1
      [] at = "existsTsconfig" -> 2
      [] at = "readPackage"    -> 3
      [] at = "readTsconfig"   -> 4
      [] at = "existsDojorc"   -> 5
      [] at = "readDojorc"     -> 6
      [] at = "gathering"      -> 7
      [] at = "writing"        -> 8
      [] OTHER                 -> 9

Dispatched == \E p \in Phases : phases[p] # "idle"

\* setProjectIndex has run: it has set the index or logged its error
IndexValidated == project.index # <<>> \/ LinesOf("error") # {}

FoundRequired(file) == \E a \in accessed : a.file = file /\ a.readable

\* C24: exportProject moves forward only: it switches the directory, checks
\* the required files, loads package.json and tsconfig.json, dispatches the
\* five phases, validates the index and writes.  Before the switch nothing
\* was checked, read, dispatched or written; nothing is read before both
\* required files were found; the phases are dispatched, all in one step,
\* with the manifest and the compiler configuration in the bundle; the index
\* is validated only when all five phases are fulfilled, and the write is
\* issued in that step with the validated bundle.  "written" is entered from
\* the write only, "written" and "errored" are never left, the log never
\* holds both an "exported" and an "errored" line, and a failed write goes
\* from the write to "errored".
C24_Ordering ==
    /\ [][pc' # pc =>
            /\ pc \notin {"written", "errored"}
            /\ Rank(pc') > Rank(pc)
            /\ pc' \in {"errored",
                        CASE pc = "init"           -> "existsPackage"
                          [] pc = "existsPackage"  -> "existsTsconfig"
                          [] pc = "existsTsconfig" -> "readPackage"
                          [] pc = "readPackage"    -> "readTsconfig"
                          [] pc = "readTsconfig"   -> "existsDojorc"
                          [] pc = "existsDojorc"   -> "readDojorc"
                          [] pc = "readDojorc"     -> "gathering"
                          [] pc = "gathering"      -> "writing"
                          [] OTHER                 -> "written"}
                \/ (pc = "existsDojorc" /\ pc' = "gathering")]_vars
    /\ [](pc = "init" => accessed = {} /\ reads = {} /\ ~Dispatched /\ writes = <<>>)
    /\ [](reads # {} => FoundRequired(PackageJsonFile) /\ FoundRequired(TsConfigFile))
    /\ [](Dispatched =>
            /\ Rank(pc) >= 7
            /\ \A p \in Phases : phases[p] # "idle"
            /\ {PackageJsonFile, TsConfigFile} \subseteq reads
            /\ project.package \in ProjectManifests
            /\ Len(typesTasks) = Len(project.tsconfig.compilerOptions.types)
            /\ Len(fileTasks.globs) = Len(project.tsconfig.include))
    /\ [](Rank(pc) < 7 => ~Dispatched /\ ~IndexValidated /\ writes = <<>>)
    /\ [](IndexValidated => \A p \in Phases : phases[p] = "fulfilled")
    /\ [](pc \in {"writing", "written"} => \A p \in Phases : phases[p] = "fulfilled")
    /\ [](writes # <<>> =>
            /\ IndexValidated
            /\ writes[1].contents = project
            /\ Rank(pc) >= 8)
    /\ [](pc \in {"writing", "written"} => Len(writes) = 1)
    /\ [](pc = "written" <=> LinesOf("exported") # {})
    /\ [](pc = "errored" <=> LinesOf("errored") # {})
    /\ [][(pc = "writing" /\ pc' = "errored") =>
            /\ writes' = writes
            /\ log'[Len(log) + 1] =
                    Line("errored", "cannot write", writes[1].filename)]_vars

\* the bundle was written with its index, after every step of the order
C24_Witness ==
    /\ pc = "written"
    /\ project.index # <<>>
    /\ DojorcPresent
    /\ Len(writes) = 1

\* a write was issued and failed
C24_WitnessFailedWrite ==
    /\ pc = "errored"
    /\ writes # <<>>

(***************************************************************************)
(* Properties of the failures of addTypesFiles.                            *)
(***************************************************************************)
\* a manifest that names its type file
Typed(packageJson) == ~Untyped(packageJson)

\* the type file a task is to read for a manifest of package packageName
TypeFileFor(packageName, packageJson) ==
    ResolvedName(cwd,
        Join(<<packageName>>,
             IF packageJson.typings # Undefined THEN packageJson.typings
             ELSE IF packageJson.types # Undefined THEN packageJson.types
             ELSE <<"index", ".", "d", ".", "ts">>))

\* the manifests that addTypesFiles appended for package packageName
AppendedManifests(packageName) ==
    {project.environmentFiles[k].text.json :
        k \in {j \in 1..Len(project.environmentFiles) :
                LET f == project.environmentFiles[j]
                IN  /\ f.name = ResolvedName(cwd, ManifestId(packageName))
                    /\ f.type = "JSON"}}

\* C25: a task of addTypesFiles fails when the manifest of its package is not
\* resolved, read or parsed (no type file is named yet), or when the file
\* that a manifest with typings or types names is not resolved or read; the
\* file is the one of typings when both fields are there, and index.d.ts is
\* tried for a manifest with neither field only.  A failed task rejects the
\* phase, the run has ended in the catch block and nothing is written; the
\* phase is rejected by nothing else.  addDependencies is never rejected,
\* whatever manifest its resolver does not find.
C25_TypesStrict ==
    /\ \A i \in 1..Len(typesTasks) :
            LET task == typesTasks[i]
                packageName == project.tsconfig.compilerOptions.types[i]
                manifests == AppendedManifests(packageName)
            IN  /\ task.stage = "failed" =>
                        /\ phases.types = "rejected"
                        /\ pc = "errored"
                        /\ writes = <<>>
                        /\ LinesOf("exported") = {}
                        /\ task.filename # <<>> =>
                                \E m \in manifests :
                                    Typed(m) /\ task.filename = TypeFileFor(packageName, m)
                /\ task.stage = "file" =>
                        \E m \in manifests :
                            Typed(m) /\ task.filename = TypeFileFor(packageName, m)
                /\ task.stage = "fallback" =>
                        \E m \in manifests :
                            Untyped(m) /\ task.filename = IndexFile(i)
                /\ task.stage = "done" =>
                        \E m \in manifests :
                            /\ task.filename = TypeFileFor(packageName, m)
                            /\ Typed(m) => Named(project.environmentFiles, task.filename)
                /\ task.stage = "manifest" => task.filename = <<>>
    /\ phases.types = "rejected" =>
            \E i \in 1..Len(typesTasks) : typesTasks[i].stage = "failed"
    /\ phases.dependencies # "rejected"

\* the manifest of a types package names both typings and types, the file of
\* typings was not found, and the run has ended in the catch block
C25_Witness ==
    /\ pc = "errored"
    /\ writes = <<>>
    /\ \E i \in 1..Len(typesTasks) :
            LET packageName == project.tsconfig.compilerOptions.types[i]
            IN  /\ typesTasks[i].stage = "failed"
                /\ typesTasks[i].filename =
                        ResolvedName(cwd, Join(<<packageName>>, <<"index", ".", "d", ".", "ts">>))
                /\ \E m \in AppendedManifests(packageName) :
                        m.typings # Undefined /\ m.types # Undefined

\* the manifest of a types package was not found and the run has ended in the
\* catch block
C25_WitnessManifest ==
    /\ pc = "errored"
    /\ \E i \in 1..Len(typesTasks) :
            typesTasks[i].stage = "failed" /\ typesTasks[i].filename = <<>>

\* the bundle was written although the manifest of a dependency was not found
C25_WitnessLenient ==
    /\ pc = "written"
    /\ \E p \in Packages :
            /\ Missing(p)
            /\ HasKey(writes[1].contents.dependencies.production, p)

(***************************************************************************)
(* Properties of the order of the resolver's lookups.                      *)
(***************************************************************************)
\* the names of a frontier from its key `from` to its key `to`
FrontierNames(f, from, to) ==
    {f.packages[k].name : k \in {j \in 1..Len(f.packages) : from <= j /\ j <= to}}

\* the calls of getDependencies that are waiting for a recursive call
Callers == {depStack[k] : k \in 1..(Len(depStack) - 1)}

\* C26 as stated: the lookups of one level are launched together, so that
\* whenever a call waits for a manifest every package of its frontier has
\* been marked as visited.
C26_ParallelLookups ==
    depAwait =>
        FrontierNames(Top(depStack), 1, Len(Top(depStack).packages))
            \subseteq parsedPackages

\* C26 (amended): within one level the lookups are made one after another.
\* Whenever the resolver waits for a manifest, it is the manifest of the one
\* frontier package the innermost call is at; the packages this resolution
\* has marked and looked up are those of the frontiers of the waiting callers
\* and those of the innermost frontier up to that key, each looked up once,
\* and no other; every caller has finished the pass over its own frontier and
\* called with its accumulator as the new frontier.
C26_SequentialLookups ==
    depAwait =>
        LET f == Top(depStack)
            current == f.packages[f.i].name
            visited == UNION {FrontierNames(c, 1, Len(c.packages)) : c \in Callers}
                            \cup FrontierNames(f, 1, f.i)
        IN  /\ f.i <= Len(f.packages)
            /\ nodeModules[current].status \in {"ok", "unreadable"}
            /\ ResolvedName(cwd, ManifestId(current)) \in reads
            /\ parsedPackages = visited
            /\ \A x \in Packages :
                    resolved[depPhase][x] = IF x \in visited THEN 1 ELSE 0
            /\ \A k \in 1..(Len(depStack) - 1) :
                    /\ depStack[k].i = Len(depStack[k].packages) + 1
                    /\ depStack[k + 1].packages = depStack[k].dependencies

\* the resolver waits for the manifest of the first of two frontier packages
\* of a deeper level; the second one is not marked
C26_Witness ==
    /\ depAwait
    /\ Len(depStack) >= 2
    /\ LET f == Top(depStack)
       IN  /\ f.i < Len(f.packages)
           /\ FrontierNames(f, f.i + 1, Len(f.packages)) \cap parsedPackages = {}

(***************************************************************************)
(* Properties of the working directory.                                    *)
(***************************************************************************)
\* the directory the project argument denotes from /home
ProjectRoot ==
    CASE args.project = <<".">>                       -> <<<<"home">>>>
      [] args.project = <<"app">>                     -> <<<<"home">>, <<"app">>>>
      [] args.project = <<".", ".", "/", "other">>    -> <<<<"other">>>>
      [] args.project = <<"/", "srv", "/", "app">>    -> <<<<"srv">>, <<"app">>>>

\* chdir threw: the catch block reported the directory
SwitchFailed ==
    \E i \in LinesOf("errored") : log[i].what = "no such directory"

\* C27: the working directory is changed in the first step of exportProject
\* and in no other: before it nothing was checked, read, dispatched or
\* written, and the step either leaves the process in the project root or,
\* when chdir throws, where it was, in the catch block.  From then on the
\* directory is the project root in every state, when the bundle is written
\* and when the run has ended in the catch block after the switch; it is
\* never set back to the directory of the call.
C27_OneWaySwitch ==
    /\ [](pc = "init" =>
            cwd = InitialCwd /\ accessed = {} /\ reads = {} /\ ~Dispatched
                /\ writes = <<>>)
    /\ [][pc = "init" =>
            \/ cwd' = ProjectRoot /\ pc' = "existsPackage"
            \/ cwd' = cwd /\ pc' = "errored"]_vars
    /\ [][pc # "init" => cwd' = cwd]_vars
    /\ [](pc \notin {"init", "errored"} => cwd = ProjectRoot)
    /\ [](pc = "errored" =>
            IF SwitchFailed
            THEN cwd = InitialCwd /\ accessed = {} /\ reads = {}
            ELSE cwd = ProjectRoot)
    /\ []((accessed # {} \/ reads # {} \/ Dispatched \/ writes # <<>>) =>
            cwd = ProjectRoot)

\* the bundle of a project beside the directory of the call was written, and
\* the process is in the project root
C27_Witness ==
    /\ pc = "written"
    /\ args.project = <<".", ".", "/", "other">>
    /\ cwd = <<<<"other">>>>
    /\ cwd # InitialCwd

\* a run has ended in the catch block after the switch, and the process is in
\* the project root
C27_WitnessErrored ==
    /\ pc = "errored"
    /\ ~SwitchFailed
    /\ cwd # InitialCwd
    /\ cwd = ProjectRoot

=============================================================================
